---- MODULE Spec2Model ----
(***************************************************************************)
(* A model of the snarc archive library: the cell / reference machinery   *)
(* of engines/table.rs and the three file engines (packaged, search,      *)
(* stream) with their parse, resolve, add_file, reorganize and write      *)
(* operations.                                                             *)
(*                                                                         *)
(* A run loads ONE engine from a table image (the from_directory /        *)
(* Archive::read path), then applies the engine's operations to it.       *)
(* Cells live in a heap indexed by GUID; a table is a sequence of GUIDs.  *)
(* GUIDs are handed out by a counter in creation order (table.rs 518-526);*)
(* the model numbers them from 1 where the code numbers them from 0.      *)
(* A panic of the code ends the run in status "aborted".                  *)
(***************************************************************************)
EXTENDS Integers, Sequences, FiniteSets, TLC

VARIABLES
    engine,   \* which engine this run loads: "packaged", "search", "stream"
    status,   \* "disk", "parsed", "resolved", "written", "aborted"
    disk,     \* the table image the engine is read from
    out,      \* the table image produced by the last write
    st,       \* the StreamEngine
    se,       \* the SearchEngine
    pk,       \* the packaged engine
    adds,     \* how many times add_file has been called, over all runs
    gen,      \* how many times a written image has been read back
    last,     \* the last operation applied and its outcome
    ar,       \* the stream Archive::write_tables writes to, and its reader
    hk,       \* a HashKey under its constructor, getters and setters
    tm,       \* a TableMaker under push
    tc        \* the GUID counter and the threads that construct cells

enginevars == <<engine, status, disk, out, st, se, pk, adds, gen, last>>
partvars == <<ar, hk, tm, tc>>
vars == <<engine, status, disk, out, st, se, pk, adds, gen, last, ar, hk, tm, tc>>

(***************************************************************************)
(* Bounds of the model                                                     *)
(***************************************************************************)
MaxStreamPaths == 2
MaxSearchFolders == 2
MaxSearchPaths == 2
MaxGen == 1
MaxPkgInfos == 1
MaxPatches == 2
MaxPatchFiles == 2
MaxAdds == 1

(***************************************************************************)
(* Program constants                                                       *)
(***************************************************************************)
INVALID_INDEX == 16777215
INDEX_MODULUS == 16777216
PATCH_BUCKETS == 1024

(***************************************************************************)
(* Sequence helpers                                                        *)
(***************************************************************************)
Range(s) == {s[i] : i \in DOMAIN s}

RECURSIVE Flatten(_)
Flatten(ss) == IF ss = <<>> THEN <<>> ELSE Head(ss) \o Flatten(Tail(ss))

IndexOf(s, x) == CHOOSE i \in DOMAIN s : s[i] = x

\* A loop over a sequence: acc := Op(acc, element), front to back.
RECURSIVE FoldSeq(_, _, _)
FoldSeq(Op(_, _), acc, s) ==
    IF s = <<>> THEN acc ELSE FoldSeq(Op, Op(acc, Head(s)), Tail(s))

\* The elements of a set of numbers in ascending order (BTreeMap iteration).
RECURSIVE SortedSeq(_)
SortedSeq(S) ==
    IF S = {} THEN <<>>
    ELSE LET m == CHOOSE x \in S : \A y \in S : x <= y
         IN  <<m>> \o SortedSeq(S \ {m})

RECURSIVE SumSeq(_)
SumSeq(s) == IF s = <<>> THEN 0 ELSE Head(s) + SumSeq(Tail(s))

\* The sum of the elements of s before position i.
Prefix(s, i) == SumSeq(SubSeq(s, 1, i - 1))

(***************************************************************************)
(* engines/mod.rs: HashKey, a 40-bit hash and a 24-bit index in one word  *)
(***************************************************************************)
HashKey_new(hash, index) == [hash |-> hash, index |-> index % INDEX_MODULUS]

(***************************************************************************)
(* engines/table.rs: references                                            *)
(***************************************************************************)
Unresolved(index) == [t |-> "Unresolved", v |-> index]
Resolved(cell) == [t |-> "Resolved", v |-> cell]

TableReference_resolve_ok(r, table) ==
    r.t = "Unresolved" => r.v < Len(table)

TableReference_resolve(r, table) ==
    IF r.t = "Unresolved" THEN Resolved(table[r.v + 1]) ELSE r

SetUnresolved(start, end) ==
    [t |-> "Unresolved", s |-> start, e |-> end, cells |-> <<>>]
SetResolved(cells) ==
    [t |-> "Resolved", s |-> 0, e |-> 0, cells |-> cells]

new_from_count(start, count) == SetUnresolved(start, start + count)

TableContiguousReference_resolve_ok(r, table, offset) ==
    r.t = "Unresolved" =>
        /\ 0 <= r.s + offset
        /\ r.s + offset <= r.e + offset
        /\ r.e + offset <= Len(table)

TableContiguousReference_resolve_with_offset(r, table, offset) ==
    IF r.t = "Unresolved"
    THEN SetResolved(SubSeq(table, r.s + offset + 1, r.e + offset))
    ELSE r

TableContiguousReference_resolve(r, table) ==
    TableContiguousReference_resolve_with_offset(r, table, 0)

\* An optional single-variant reference made by multi_reference!: None,
\* Unresolved(index), or the variant holding a cell.
None == [t |-> "None", v |-> 0]
Variant(name, cell) == [t |-> name, v |-> cell]

\* TableLinkedReference: the unresolved form holds the index of the first
\* element; resolve indexes the table with it and follows next().
LinkedUnresolved(start) ==
    [t |-> "Unresolved", s |-> start, e |-> 0, cells |-> <<>>]

\* The chain of cells from `cell` along next(); `fuel` bounds the walk, and
\* a walk that runs out of fuel revisits a cell: the loop never ends.
RECURSIVE Chain(_, _, _)
Chain(heap, cell, fuel) ==
    IF fuel = 0 THEN <<cell>>
    ELSE IF heap[cell].next.t = "None" THEN <<cell>>
    ELSE <<cell>> \o Chain(heap, heap[cell].next.v, fuel - 1)

Chain_ends(heap, cell) ==
    LET c == Chain(heap, cell, Len(heap))
    IN  heap[c[Len(c)]].next.t = "None"

TableLinkedReference_resolve_ok(r, heap, table) ==
    r.t = "Unresolved" => r.s < Len(table)

TableLinkedReference_resolve_ends(r, heap, table) ==
    r.t = "Unresolved" => Chain_ends(heap, table[r.s + 1])

TableLinkedReference_resolve(r, heap, table) ==
    IF r.t = "Unresolved"
    THEN SetResolved(Chain(heap, table[r.s + 1], Len(heap)))
    ELSE r

\* TableMaker: an append-only table that refuses a cell it already holds.
TableMaker_push_ok(table, cell) == cell \notin Range(table)
TableMaker_has_cell(table, cell) == cell \in Range(table)
TableMaker_get_index(table, cell) == IndexOf(table, cell) - 1

\* The keys of a lookup as written: one HashKey per entry, in hash order,
\* holding the index of the entry's cell in the new table.
Keys_write(lookup, table) ==
    LET hs == SortedSeq(DOMAIN lookup)
    IN  [i \in DOMAIN hs |->
            HashKey_new(hs[i], TableMaker_get_index(table, lookup[hs[i]]))]

(***************************************************************************)
(* engines/stream: the stream engine                                       *)
(***************************************************************************)
EmptyStream ==
    [heap |-> <<>>, folders |-> <<>>, paths |-> <<>>, links |-> <<>>,
     metadatas |-> <<>>, path_lookup |-> <<>>]

\* binread of one record of each stream table
StreamFolder_read(raw) ==
    [name |-> raw.name.hash,
     paths |-> new_from_count(raw.start, raw.name.index)]

StreamPath_read_ok(raw) == raw.flags \in {0, 1, 2}

StreamPath_read(raw) ==
    [full_path |-> raw.path.hash,
     links |-> CASE raw.flags = 0 -> new_from_count(raw.path.index, 1)
                 [] raw.flags = 1 -> new_from_count(raw.path.index, 14)
                 [] OTHER -> new_from_count(raw.path.index, 5),
     is_localized |-> raw.flags % 2 = 1,
     is_regional |-> (raw.flags \div 2) % 2 = 1]

StreamLink_read(raw) == [metadata |-> Unresolved(raw)]

\* A lookup from hash to cell, built by collecting (hash, cell) pairs in
\* table order into a map: a later pair replaces an earlier one.
LastWith(heap, table, h) ==
    table[CHOOSE i \in DOMAIN table :
            /\ heap[table[i]].full_path = h
            /\ \A j \in DOMAIN table : heap[table[j]].full_path = h => j <= i]

LookupOf(heap, table) ==
    [h \in {heap[c].full_path : c \in Range(table)} |-> LastWith(heap, table, h)]

Ids(from, n) == [i \in 1..n |-> from + i]

StreamEngine_read_ok(d) == \A i \in DOMAIN d.paths : StreamPath_read_ok(d.paths[i])

StreamEngine_read(d) ==
    LET nf == Len(d.folders)
        np == Len(d.paths)
        nl == Len(d.links)
        nm == Len(d.metadatas)
        heap == [i \in 1..nf |-> StreamFolder_read(d.folders[i])]
                \o [i \in 1..np |-> StreamPath_read(d.paths[i])]
                \o [i \in 1..nl |-> StreamLink_read(d.links[i])]
                \o d.metadatas
        paths == Ids(nf, np)
    IN  [heap |-> heap,
         folders |-> Ids(0, nf),
         paths |-> paths,
         links |-> Ids(nf + np, nl),
         metadatas |-> Ids(nf + np + nl, nm),
         path_lookup |-> LookupOf(heap, paths)]

StreamFolder_resolve(folder, paths) ==
    [folder EXCEPT !.paths = TableContiguousReference_resolve(@, paths)]

StreamPath_resolve(path, links) ==
    [path EXCEPT !.links = TableContiguousReference_resolve(@, links)]

StreamLink_resolve(link, metadatas) ==
    [link EXCEPT !.metadata = TableReference_resolve(@, metadatas)]

StreamEngine_resolve_ok(e) ==
    /\ \A c \in Range(e.folders) :
         TableContiguousReference_resolve_ok(e.heap[c].paths, e.paths, 0)
    /\ \A c \in Range(e.paths) :
         TableContiguousReference_resolve_ok(e.heap[c].links, e.links, 0)
    /\ \A c \in Range(e.links) :
         TableReference_resolve_ok(e.heap[c].metadata, e.metadatas)

StreamEngine_resolve(e) ==
    [e EXCEPT !.heap =
        [c \in DOMAIN e.heap |->
            IF c \in Range(e.folders) THEN StreamFolder_resolve(e.heap[c], e.paths)
            ELSE IF c \in Range(e.paths) THEN StreamPath_resolve(e.heap[c], e.links)
            ELSE IF c \in Range(e.links) THEN StreamLink_resolve(e.heap[c], e.metadatas)
            ELSE e.heap[c]]]

\* TableMaker::push on one table of a writer; a writer that has panicked
\* (ok = FALSE) stays as it is.
Writer_push(w, table, cell) ==
    IF ~w.ok THEN w
    ELSE IF ~TableMaker_push_ok(w[table], cell) THEN [w EXCEPT !.ok = FALSE]
    ELSE [w EXCEPT ![table] = Append(@, cell)]

\* Reading the cells of a set reference panics while it is unresolved.
Cells_ok(r) == r.t = "Resolved"

StreamWriter_push_metadata(w, metadata) == Writer_push(w, "metadatas", metadata)

\* A push_link that pushes the metadata of every link.
StreamWriter_push_link_every_metadata(heap, w, link) ==
    LET w1 == Writer_push(w, "links", link)
        m == heap[link].metadata
    IN  IF ~w1.ok THEN w1
        ELSE IF m.t # "Resolved" THEN [w1 EXCEPT !.ok = FALSE]
        ELSE StreamWriter_push_metadata(w1, m.v)

StreamWriter_push_link(heap, w, link) ==
    LET w1 == Writer_push(w, "links", link)
        m == heap[link].metadata
    IN  IF ~w1.ok THEN w1
        ELSE IF m.t # "Resolved" THEN [w1 EXCEPT !.ok = FALSE]
        ELSE IF ~TableMaker_has_cell(w1.metadatas, m.v)
             THEN StreamWriter_push_metadata(w1, m.v)
             ELSE w1

StreamWriter_push_path(heap, w, path) ==
    LET w1 == Writer_push(w, "paths", path)
    IN  IF ~w1.ok THEN w1
        ELSE IF ~Cells_ok(heap[path].links) THEN [w1 EXCEPT !.ok = FALSE]
        ELSE FoldSeq(LAMBDA a, c : StreamWriter_push_link(heap, a, c),
                     w1, heap[path].links.cells)

StreamWriter_push_folder(heap, w, folder) ==
    LET w1 == Writer_push(w, "folders", folder)
    IN  IF ~w1.ok THEN w1
        ELSE IF ~Cells_ok(heap[folder].paths) THEN [w1 EXCEPT !.ok = FALSE]
        ELSE FoldSeq(LAMBDA a, c : StreamWriter_push_path(heap, a, c),
                     w1, heap[folder].paths.cells)

StreamWriter_from_engine(e) ==
    FoldSeq(LAMBDA a, c : StreamWriter_push_folder(e.heap, a, c),
            [ok |-> TRUE, heap |-> e.heap, path_lookup |-> e.path_lookup,
             folders |-> <<>>, paths |-> <<>>, links |-> <<>>, metadatas |-> <<>>],
            e.folders)

StreamEngine_reorganize(e) ==
    LET w == StreamWriter_from_engine(e)
    IN  [heap |-> w.heap, folders |-> w.folders, paths |-> w.paths,
         links |-> w.links, metadatas |-> w.metadatas,
         path_lookup |-> w.path_lookup]

\* BinWrite of one record of each stream table
StreamFolder_write(w, folder) ==
    LET f == w.heap[folder]
        start == IF f.paths.cells = <<>> THEN 0
                 ELSE TableMaker_get_index(w.paths, f.paths.cells[1])
    IN  [name |-> HashKey_new(f.name, Len(f.paths.cells)), start |-> start]

\* A flag word that tells localized from not localized only.
StreamPath_write_flags_localized_only(p) ==
    IF p.is_localized THEN 1 ELSE 0

StreamPath_write_flags(p) ==
    IF p.is_localized THEN 1 ELSE IF p.is_regional THEN 2 ELSE 0

StreamPath_write(w, path) ==
    LET p == w.heap[path]
        link == TableMaker_get_index(w.links, p.links.cells[1])
    IN  [path |-> HashKey_new(p.full_path, link),
         flags |-> StreamPath_write_flags(p)]

StreamLink_write(w, link) ==
    TableMaker_get_index(w.metadatas, w.heap[link].metadata.v)

\* get_index panics for a cell the table does not hold; cells()[0] panics
\* on an empty set.
StreamWriter_to_memory_ok(w) ==
    /\ w.ok
    /\ \A h \in DOMAIN w.path_lookup :
         TableMaker_has_cell(w.paths, w.path_lookup[h])
    /\ \A c \in Range(w.paths) : w.heap[c].links.cells # <<>>

StreamWriter_to_memory(w) ==
    [folders |-> [i \in DOMAIN w.folders |-> StreamFolder_write(w, w.folders[i])],
     keys |-> Keys_write(w.path_lookup, w.paths),
     paths |-> [i \in DOMAIN w.paths |-> StreamPath_write(w, w.paths[i])],
     links |-> [i \in DOMAIN w.links |-> StreamLink_write(w, w.links[i])],
     metadatas |-> [i \in DOMAIN w.metadatas |-> w.heap[w.metadatas[i]]]]

(***************************************************************************)
(* engines/search: the search engine                                       *)
(***************************************************************************)
EmptySearch ==
    [heap |-> <<>>, folders |-> <<>>, paths |-> <<>>,
     folder_lookup |-> <<>>, path_lookup |-> <<>>]

IS_FOLDER_BIT == 4194304
EMPTY_HASH == 0

SearchFolder_read(raw) ==
    [full_path |-> raw.path.hash,
     parent |-> raw.parent.hash,
     name |-> raw.name,
     file_count |-> raw.parent.index,
     folder_count |-> raw.path.index,
     children |-> LinkedUnresolved(raw.first_child_index)]

SearchPath_read(raw) ==
    [full_path |-> raw.path.hash,
     parent |-> raw.parent.hash,
     name |-> raw.name,
     extension |-> raw.extension,
     folder |-> IF (raw.parent.index \div IS_FOLDER_BIT) % 2 = 1
                THEN Unresolved(INVALID_INDEX) ELSE None,
     next |-> IF raw.path.index = INVALID_INDEX
              THEN None ELSE Unresolved(raw.path.index)]

SearchEngine_read(d) ==
    LET nf == Len(d.folders)
        np == Len(d.paths)
        heap == [i \in 1..nf |-> SearchFolder_read(d.folders[i])]
                \o [i \in 1..np |-> SearchPath_read(d.paths[i])]
        folders == Ids(0, nf)
        paths == Ids(nf, np)
    IN  [heap |-> heap,
         folders |-> folders,
         paths |-> paths,
         folder_lookup |-> LookupOf(heap, folders),
         path_lookup |->
            LookupOf(heap, SelectSeq(paths, LAMBDA c : heap[c].full_path # EMPTY_HASH))]

SearchPathFolderReference_resolve_ok(r, hash, lookup) ==
    r.t = "Unresolved" => hash \in DOMAIN lookup

SearchPathFolderReference_resolve(r, hash, lookup) ==
    IF r.t = "Unresolved" THEN Variant("Folder", lookup[hash]) ELSE r

SearchPathNextReference_resolve_ok(r, paths) ==
    r.t = "Unresolved" => r.v < Len(paths)

SearchPathNextReference_resolve(r, paths) ==
    IF r.t = "Unresolved" THEN Variant("Path", paths[r.v + 1]) ELSE r

SearchPath_resolve(path, paths, folder_lookup) ==
    [path EXCEPT
        !.folder = SearchPathFolderReference_resolve(@, path.full_path, folder_lookup),
        !.next = SearchPathNextReference_resolve(@, paths)]

SearchFolder_resolve(folder, heap, paths) ==
    [folder EXCEPT !.children = TableLinkedReference_resolve(@, heap, paths)]

\* SearchEngine::resolve, first loop: every path
SearchEngine_resolve_paths(e) ==
    [c \in DOMAIN e.heap |->
        IF c \in Range(e.paths)
        THEN SearchPath_resolve(e.heap[c], e.paths, e.folder_lookup)
        ELSE e.heap[c]]

SearchEngine_resolve_ok(e) ==
    /\ \A c \in Range(e.paths) :
         /\ SearchPathFolderReference_resolve_ok(
                e.heap[c].folder, e.heap[c].full_path, e.folder_lookup)
         /\ SearchPathNextReference_resolve_ok(e.heap[c].next, e.paths)
    /\ \A c \in Range(e.folders) :
         TableLinkedReference_resolve_ok(e.heap[c].children, e.heap, e.paths)

\* Whether every sibling chain walked by the second loop comes to an end.
SearchEngine_resolve_ends(e) ==
    LET heap == SearchEngine_resolve_paths(e)
    IN  \A c \in Range(e.folders) :
            TableLinkedReference_resolve_ends(heap[c].children, heap, e.paths)

SearchEngine_resolve(e) ==
    LET heap == SearchEngine_resolve_paths(e)
    IN  [e EXCEPT !.heap =
            [c \in DOMAIN heap |->
                IF c \in Range(e.folders)
                THEN SearchFolder_resolve(heap[c], heap, e.paths)
                ELSE heap[c]]]

SearchWriter_push_path(w, path) == Writer_push(w, "paths", path)

SearchWriter_push_folder(heap, w, folder) ==
    LET w1 == Writer_push(w, "folders", folder)
    IN  IF ~w1.ok THEN w1
        ELSE IF ~Cells_ok(heap[folder].children) THEN [w1 EXCEPT !.ok = FALSE]
        ELSE FoldSeq(LAMBDA a, c : SearchWriter_push_path(a, c),
                     w1, heap[folder].children.cells)

SearchWriter_from_engine(e) ==
    FoldSeq(LAMBDA a, c : SearchWriter_push_folder(e.heap, a, c),
            [ok |-> TRUE, heap |-> e.heap, folder_lookup |-> e.folder_lookup,
             path_lookup |-> e.path_lookup, folders |-> <<>>, paths |-> <<>>],
            e.folders)

SearchEngine_reorganize(e) ==
    LET w == SearchWriter_from_engine(e)
    IN  [heap |-> w.heap, folders |-> w.folders, paths |-> w.paths,
         folder_lookup |-> w.folder_lookup, path_lookup |-> w.path_lookup]

SearchFolder_write(w, folder) ==
    LET f == w.heap[folder]
    IN  [path |-> HashKey_new(f.full_path, f.folder_count),
         parent |-> HashKey_new(f.parent, f.file_count),
         name |-> f.name,
         first_child_index |->
            IF f.children.cells = <<>> THEN INVALID_INDEX
            ELSE TableMaker_get_index(w.paths, f.children.cells[1])]

SearchPath_write(w, path) ==
    LET p == w.heap[path]
        next_index == IF p.next.t = "None" THEN INVALID_INDEX
                      ELSE TableMaker_get_index(w.paths, p.next.v)
        is_folder == IF p.folder.t = "None" THEN 0 ELSE IS_FOLDER_BIT
    IN  [path |-> HashKey_new(p.full_path, next_index),
         parent |-> HashKey_new(p.full_path, is_folder),
         name |-> p.name,
         extension |-> p.extension]

\* get_index panics for a cell the table does not hold; next.path() panics
\* while next is unresolved.
SearchWriter_to_memory_ok(w) ==
    /\ w.ok
    /\ \A h \in DOMAIN w.folder_lookup :
         TableMaker_has_cell(w.folders, w.folder_lookup[h])
    /\ \A h \in DOMAIN w.path_lookup :
         TableMaker_has_cell(w.paths, w.path_lookup[h])
    /\ \A c \in Range(w.paths) :
         /\ w.heap[c].next.t # "Unresolved"
         /\ w.heap[c].next.t = "Path" => TableMaker_has_cell(w.paths, w.heap[c].next.v)

SearchWriter_to_memory(w) ==
    [folder_keys |-> Keys_write(w.folder_lookup, w.folders),
     folders |-> [i \in DOMAIN w.folders |-> SearchFolder_write(w, w.folders[i])],
     path_keys |-> Keys_write(w.path_lookup, w.paths),
     path_links |-> [i \in DOMAIN w.paths |-> i - 1],
     paths |-> [i \in DOMAIN w.paths |-> SearchPath_write(w, w.paths[i])]]

(***************************************************************************)
(* Table images the stream engine is loaded from                           *)
(***************************************************************************)
StreamLinkCount == 20
StreamMetadataCount == 2

StreamFolderLayouts(np) ==
    {<<[name |-> HashKey_new(1, np), start |-> 0]>>,
     <<[name |-> HashKey_new(1, 1), start |-> 0]>>,
     <<[name |-> HashKey_new(1, 1), start |-> 0],
       [name |-> HashKey_new(2, np - 1), start |-> 1]>>}

StreamRawPaths ==
    [path : {HashKey_new(h, l) : h \in 1..MaxStreamPaths, l \in {0, 14}},
     flags : 0..3]

StreamImages ==
    {[folders |-> f, paths |-> p,
      keys |-> [i \in DOMAIN p |-> HashKey_new(p[i].path.hash, i - 1)],
      links |-> [i \in 1..StreamLinkCount |-> i % StreamMetadataCount],
      metadatas |-> [i \in 1..StreamMetadataCount |-> [size |-> i, offset |-> i]]] :
        p \in {q \in UNION {[1..n -> StreamRawPaths] : n \in 1..MaxStreamPaths} :
                 \A i \in DOMAIN q : q[i].path.hash = i},
        f \in UNION {StreamFolderLayouts(n) : n \in 1..MaxStreamPaths}}

(***************************************************************************)
(* Table images the search engine is loaded from                           *)
(***************************************************************************)
SearchRawFolders(i) ==
    {[path |-> HashKey_new(i, 0), parent |-> HashKey_new(0, 0), name |-> i,
      first_child_index |-> c] : c \in {0, 1, INVALID_INDEX}}

\* Path j is a file (hash 10 + j) or the entry of folder 2 (is-folder bit
\* set); its next index is the sentinel, the following path, or path 0.
SearchRawPaths(j) ==
    {[path |-> HashKey_new(h, n),
      parent |-> HashKey_new(1, IF h = 2 THEN IS_FOLDER_BIT ELSE 0),
      name |-> h, extension |-> 0] :
        h \in {10 + j, 2}, n \in {INVALID_INDEX, j, 0}}

SearchImages ==
    {[folder_keys |-> [i \in DOMAIN f |-> HashKey_new(i, i - 1)],
      folders |-> f,
      path_keys |-> [j \in DOMAIN p |-> HashKey_new(p[j].path.hash, j - 1)],
      path_links |-> [j \in DOMAIN p |-> j - 1],
      paths |-> p] :
        f \in {g \in UNION {[1..n -> UNION {SearchRawFolders(i) : i \in 1..n}] :
                                n \in 1..MaxSearchFolders} :
                 \A i \in DOMAIN g : g[i] \in SearchRawFolders(i)},
        p \in {q \in UNION {[1..n -> UNION {SearchRawPaths(j) : j \in 1..n}] :
                                n \in 1..MaxSearchPaths} :
                 \A j \in DOMAIN q : q[j] \in SearchRawPaths(j)}}

(***************************************************************************)
(* engines/packaged: the packaged engine.  A cell is a position of `heap`  *)
(* and its GUID; a table is a sequence of cells.  The flag word of a raw   *)
(* record is the set of the numbers of its bits that are set.              *)
(***************************************************************************)
EmptyPackaged ==
    [heap |-> <<>>, packages |-> <<>>, child_packages |-> <<>>, groups |-> <<>>,
     paths |-> <<>>, links |-> <<>>, infos |-> <<>>, descriptors |-> <<>>,
     metadatas |-> <<>>, patches |-> <<>>, versioned_files |-> <<>>,
     package_lookup |-> <<>>, file_lookup |-> [count |-> 1, map |-> <<>>]]

\* A reader that looks at the regional flag before the localized flag.
Package_read_regional_first(raw) ==
    [full_path |-> raw.path.hash,
     groups |-> IF 25 \in raw.flags THEN new_from_count(raw.path.index, 6)
                ELSE IF 24 \in raw.flags THEN new_from_count(raw.path.index, 15)
                ELSE new_from_count(raw.path.index, 1),
     infos |-> new_from_count(raw.info_start, raw.info_count),
     child_packages |->
         new_from_count(raw.child_package_start, raw.child_package_count),
     is_localized |-> 24 \in raw.flags,
     is_regional |-> 25 \in raw.flags,
     has_sub_package |-> 26 \in raw.flags,
     sym_link_is_regional |-> 27 \in raw.flags,
     is_sym_link |-> 28 \in raw.flags]

Package_read(raw) ==
    [full_path |-> raw.path.hash,
     groups |-> IF 24 \in raw.flags THEN new_from_count(raw.path.index, 15)
                ELSE IF 25 \in raw.flags THEN new_from_count(raw.path.index, 6)
                ELSE new_from_count(raw.path.index, 1),
     infos |-> new_from_count(raw.info_start, raw.info_count),
     child_packages |->
         new_from_count(raw.child_package_start, raw.child_package_count),
     is_localized |-> 24 \in raw.flags,
     is_regional |-> 25 \in raw.flags,
     has_sub_package |-> 26 \in raw.flags,
     sym_link_is_regional |-> 27 \in raw.flags,
     is_sym_link |-> 28 \in raw.flags]

ChildPackage_read(raw) ==
    [full_path |-> raw.hash, package |-> Unresolved(raw.index)]

Group_read(raw) ==
    [files |-> SetUnresolved(raw.range_start, raw.range_start + raw.range_count),
     sub_package |-> IF raw.sub_package = INVALID_INDEX THEN None
                     ELSE Unresolved(raw.sub_package)]

Path_read(raw) ==
    [full_path |-> raw.path.hash,
     extension |-> raw.ext.hash,
     parent |-> raw.parent,
     file_name |-> raw.file_name,
     link |-> Unresolved(raw.path.index),
     versioned_file |-> IF raw.ext.index = INVALID_INDEX THEN None
                        ELSE Unresolved(raw.ext.index)]

Link_read(raw) ==
    [owner |-> Unresolved(raw.owner), info |-> Unresolved(raw.info)]

Info_read(raw) ==
    [path |-> Unresolved(raw.path),
     link |-> Unresolved(raw.link),
     descriptors |-> IF 15 \in raw.flags THEN new_from_count(raw.descriptor_index, 15)
                     ELSE IF 16 \in raw.flags THEN new_from_count(raw.descriptor_index, 6)
                     ELSE new_from_count(raw.descriptor_index, 1),
     is_regular_file |-> 4 \in raw.flags,
     is_graphics_archive |-> 12 \in raw.flags,
     is_localized |-> 15 \in raw.flags,
     is_regional |-> 16 \in raw.flags,
     is_shared |-> 20 \in raw.flags,
     is_unknown_flag |-> 21 \in raw.flags]

\* The load arguments are one word: a tag in the top byte and 24 bits of
\* payload.
DescriptorLoadArguments_read_ok(raw) == raw.tag \in {0, 1, 3, 5, 9, 16}

DescriptorLoadArguments_read(raw) ==
    IF raw.tag = 0 THEN [tag |-> "Unowned", r |-> Unresolved(raw.payload)]
    ELSE IF raw.tag = 1 THEN [tag |-> "Owned", r |-> Unresolved(raw.payload)]
    ELSE IF raw.tag = 3 THEN [tag |-> "PackageSkip", r |-> Unresolved(raw.payload)]
    ELSE IF raw.tag = 5 THEN [tag |-> "Unknown", r |-> None]
    ELSE IF raw.tag = 9 THEN [tag |-> "SharedButOwned", r |-> Unresolved(raw.payload)]
    ELSE [tag |-> "UnsupportedRegion", r |-> [t |-> "Locale", v |-> raw.payload]]

Descriptor_read(raw) ==
    [group |-> Unresolved(raw.group),
     metadata |-> IF raw.metadata = INVALID_INDEX THEN None
                  ELSE Unresolved(raw.metadata),
     load_args |-> DescriptorLoadArguments_read(raw.load_args)]

Metadata_read(raw) == [data |-> raw]

Patch_read(raw) ==
    [file_count |-> raw.file_count,
     group |-> Unresolved(raw.group),
     lookup_size_in_bytes |-> raw.lookup_size_in_bytes,
     versioned_files |-> new_from_count(raw.file_start, raw.file_count),
     infos |-> new_from_count(raw.file_start, raw.file_count),
     num_changed_this_patch |-> raw.num_changed_this_patch]

VersionedFile_read(raw) ==
    [path |-> raw.path.hash,
     info |-> Unresolved(raw.info),
     link |-> Unresolved(raw.link),
     changed_this_patch |-> raw.path.index = 0]

\* BucketMap::insert: the map keeps one value per hash.
BucketMap_insert(m, hash, value) ==
    [m EXCEPT !.map = [h \in DOMAIN @ \cup {hash} |->
                          IF h = hash THEN value ELSE @[h]]]

BucketMap_len(m) == Cardinality(DOMAIN m.map)

\* The entries of bucket b (0-based) in hash order.
BucketMap_bucket(m, b) == SortedSeq({h \in DOMAIN m.map : h % m.count = b})

\* A table of buckets that holds for each bucket where it starts and where
\* it ends.
BucketMap_buckets_start_end(m) ==
    [b \in 1..m.count |->
        [start |-> Cardinality({h \in DOMAIN m.map : h % m.count < b - 1}),
         count |-> Cardinality({h \in DOMAIN m.map : h % m.count < b})]]

\* The table of buckets to_memory writes: for each bucket the running total
\* of the lengths of the buckets before it, and its own length.
BucketMap_buckets(m) ==
    [b \in 1..m.count |->
        [start |-> Cardinality({h \in DOMAIN m.map : h % m.count < b - 1}),
         count |-> Cardinality({h \in DOMAIN m.map : h % m.count = b - 1})]]

PackagedEngine_read_ok(img) ==
    /\ img.path_bucket_count # 0
    /\ \A i \in DOMAIN img.descriptors :
         DescriptorLoadArguments_read_ok(img.descriptors[i].load_args)
    /\ Len(img.bodies) = Len(img.patches)
    /\ \A k \in DOMAIN img.patches :
         img.patches[k].file_count = Len(img.bodies[k].files)

PackagedEngine_read(img) ==
    LET raws == <<img.paths, img.links, img.packages, img.groups,
                  img.child_packages, img.infos, img.descriptors, img.metadatas,
                  img.patches, Flatten([k \in DOMAIN img.bodies |-> img.bodies[k].files])>>
        lens == [i \in DOMAIN raws |-> Len(raws[i])]
        tab(i) == Ids(Prefix(lens, i), lens[i])
        heap ==
            [i \in DOMAIN raws[1] |-> Path_read(raws[1][i])]
            \o [i \in DOMAIN raws[2] |-> Link_read(raws[2][i])]
            \o [i \in DOMAIN raws[3] |-> Package_read(raws[3][i])]
            \o [i \in DOMAIN raws[4] |-> Group_read(raws[4][i])]
            \o [i \in DOMAIN raws[5] |-> ChildPackage_read(raws[5][i])]
            \o [i \in DOMAIN raws[6] |-> Info_read(raws[6][i])]
            \o [i \in DOMAIN raws[7] |-> Descriptor_read(raws[7][i])]
            \o [i \in DOMAIN raws[8] |-> Metadata_read(raws[8][i])]
            \o [i \in DOMAIN raws[9] |-> Patch_read(raws[9][i])]
            \o [i \in DOMAIN raws[10] |-> VersionedFile_read(raws[10][i])]
    IN  [heap |-> heap,
         paths |-> tab(1), links |-> tab(2), packages |-> tab(3),
         groups |-> tab(4), child_packages |-> tab(5), infos |-> tab(6),
         descriptors |-> tab(7), metadatas |-> tab(8), patches |-> tab(9),
         versioned_files |-> tab(10),
         package_lookup |-> LookupOf(heap, tab(3)),
         file_lookup |-> [count |-> img.path_bucket_count,
                          map |-> LookupOf(heap, tab(1))]]

(***************************************************************************)
(* PackagedEngine::resolve.  A 64-bit unsigned value is kept as a small    *)
(* integer in which a negative number n stands for 2^64 + n, so that the   *)
(* difference of two GUIDs is their integer difference; an addition or a   *)
(* subtraction that leaves the range panics in a build with overflow       *)
(* checks (`checked`) and wraps in a build without them.                   *)
(***************************************************************************)
ULess(a, b) == IF (a < 0) = (b < 0) THEN a < b ELSE b < 0

\* TableReference::resolve_with_offset: table[index + offset].
TableReference_resolve_with_offset_ok(r, table, offset, checked) ==
    r.t = "Unresolved" =>
        /\ offset < 0 /\ r.v + offset >= 0 => ~checked
        /\ 0 <= r.v + offset
        /\ r.v + offset < Len(table)

TableReference_resolve_with_offset(r, table, offset) ==
    IF r.t = "Unresolved" THEN Resolved(table[r.v + offset + 1]) ELSE r

Package_resolve_ok(p, groups, infos, child_packages) ==
    /\ TableContiguousReference_resolve_ok(p.groups, groups, 0)
    /\ TableContiguousReference_resolve_ok(p.infos, infos, 0)
    /\ TableContiguousReference_resolve_ok(p.child_packages, child_packages, 0)

Package_resolve(p, groups, infos, child_packages) ==
    [p EXCEPT !.groups = TableContiguousReference_resolve(@, groups),
              !.infos = TableContiguousReference_resolve(@, infos),
              !.child_packages = TableContiguousReference_resolve(@, child_packages)]

ChildPackage_resolve(c, packages) ==
    [c EXCEPT !.package = TableReference_resolve(@, packages)]

GroupSubPackageReference_resolve_ok(r, packages, groups) ==
    r.t = "Unresolved" => (r.v = 0 \/ r.v < Len(packages) \/ r.v < Len(groups))

GroupSubPackageReference_resolve(r, packages, groups) ==
    IF r.t # "Unresolved" THEN r
    ELSE IF r.v = 0 THEN None
    ELSE IF r.v < Len(packages) THEN Variant("Package", packages[r.v + 1])
    ELSE Variant("Group", groups[r.v + 1])

GroupFileReference_resolve(r, infos, metadatas, is_info_group) ==
    IF r.t # "Unresolved" THEN r
    ELSE IF is_info_group
    THEN [TableContiguousReference_resolve(r, infos) EXCEPT !.t = "Info"]
    ELSE [TableContiguousReference_resolve(r, metadatas) EXCEPT !.t = "Metadata"]

\* A Group::resolve that takes a group for an info-group only when the
\* index it read is 0.
Group_resolve_is_info_group_zero(g, self_index) ==
    g.sub_package.t = "Unresolved" /\ g.sub_package.v = 0

\* The local is_info_group of Group::resolve: the index the sub-package
\* reference held is 0 or the group's own index.
Group_resolve_is_info_group(g, self_index) ==
    g.sub_package.t = "Unresolved" /\ g.sub_package.v \in {0, self_index}

Group_resolve_ok(g, packages, groups, infos, metadatas, self_index) ==
    /\ GroupSubPackageReference_resolve_ok(g.sub_package, packages, groups)
    /\ TableContiguousReference_resolve_ok(g.files,
           IF Group_resolve_is_info_group(g, self_index) THEN infos ELSE metadatas, 0)

Group_resolve(g, packages, groups, infos, metadatas, self_index) ==
    [g EXCEPT !.sub_package = GroupSubPackageReference_resolve(@, packages, groups),
              !.files = GroupFileReference_resolve(@, infos, metadatas,
                            Group_resolve_is_info_group(g, self_index))]

is_info_group(g) == g.files.t = "Info"
is_metadata_group(g) == g.files.t = "Metadata"
is_version_group(g) == g.files.t = "Info" /\ g.sub_package.t = "None"

PathVersionedFileReference_resolve_ok(r, versioned_files, offset, checked) ==
    r.t = "Unresolved" =>
        /\ offset < 0 /\ r.v + offset >= 0 => ~checked
        /\ 0 <= r.v + offset
        /\ r.v + offset < Len(versioned_files)

PathVersionedFileReference_resolve(r, versioned_files, offset) ==
    IF r.t = "Unresolved"
    THEN Variant("VersionedFile", versioned_files[r.v + offset + 1])
    ELSE r

Path_resolve_ok(p, links, versioned_files, offset, checked) ==
    /\ TableReference_resolve_ok(p.link, links)
    /\ PathVersionedFileReference_resolve_ok(p.versioned_file, versioned_files,
                                             offset, checked)

Path_resolve(p, links, versioned_files, offset) ==
    [p EXCEPT !.link = TableReference_resolve(@, links),
              !.versioned_file =
                  PathVersionedFileReference_resolve(@, versioned_files, offset)]

LinkOwnerReference_resolve_ok(r, packages, groups) ==
    r.t = "Unresolved" => (r.v < Len(packages) \/ r.v < Len(groups))

\* A LinkOwnerReference::resolve that counts the groups from len(packages).
LinkOwnerReference_resolve_rebased(r, packages, groups) ==
    IF r.t # "Unresolved" THEN r
    ELSE IF r.v < Len(packages) THEN Variant("Package", packages[r.v + 1])
    ELSE Variant("Group", groups[r.v - Len(packages) + 1])

LinkOwnerReference_resolve(r, packages, groups) ==
    IF r.t # "Unresolved" THEN r
    ELSE IF r.v < Len(packages) THEN Variant("Package", packages[r.v + 1])
    ELSE Variant("Group", groups[r.v + 1])

Link_resolve_ok(l, packages, groups, infos) ==
    /\ LinkOwnerReference_resolve_ok(l.owner, packages, groups)
    /\ TableReference_resolve_ok(l.info, infos)

Link_resolve(l, packages, groups, infos) ==
    [l EXCEPT !.owner = LinkOwnerReference_resolve(@, packages, groups),
              !.info = TableReference_resolve(@, infos)]

Info_resolve_ok(i, paths, links, descriptors) ==
    /\ TableReference_resolve_ok(i.path, paths)
    /\ TableReference_resolve_ok(i.link, links)
    /\ TableContiguousReference_resolve_ok(i.descriptors, descriptors, 0)

Info_resolve(i, paths, links, descriptors) ==
    [i EXCEPT !.path = TableReference_resolve(@, paths),
              !.link = TableReference_resolve(@, links),
              !.descriptors = TableContiguousReference_resolve(@, descriptors)]

DescriptorMetadataReference_resolve_ok(r, metadatas) ==
    r.t = "Unresolved" => r.v < Len(metadatas)

DescriptorMetadataReference_resolve(r, metadatas) ==
    IF r.t = "Unresolved" THEN Variant("Metadata", metadatas[r.v + 1]) ELSE r

DescriptorLoadArgumentsPatchReference_resolve_ok(r, patches, is_versioned_descriptor) ==
    is_versioned_descriptor /\ r.t = "Unresolved" => r.v < Len(patches)

DescriptorLoadArgumentsPatchReference_resolve(r, patches, is_versioned_descriptor) ==
    IF ~is_versioned_descriptor THEN None
    ELSE IF r.t = "Unresolved" THEN Variant("Patch", patches[r.v + 1])
    ELSE r

DescriptorLoadArguments_resolve_ok(a, e, info_offset, is_versioned_descriptor, checked) ==
    IF a.tag \in {"Unowned", "SharedButOwned"}
    THEN TableReference_resolve_ok(a.r, e.links)
    ELSE IF a.tag = "Owned"
    THEN DescriptorLoadArgumentsPatchReference_resolve_ok(a.r, e.patches,
                                                          is_versioned_descriptor)
    ELSE IF a.tag = "PackageSkip"
    THEN TableReference_resolve_with_offset_ok(a.r, e.infos, info_offset, checked)
    ELSE TRUE

DescriptorLoadArguments_resolve(a, e, info_offset, is_versioned_descriptor) ==
    IF a.tag \in {"Unowned", "SharedButOwned"}
    THEN [a EXCEPT !.r = TableReference_resolve(@, e.links)]
    ELSE IF a.tag = "Owned"
    THEN [a EXCEPT !.r = DescriptorLoadArgumentsPatchReference_resolve(@, e.patches,
                                                    is_versioned_descriptor)]
    ELSE IF a.tag = "PackageSkip"
    THEN [a EXCEPT !.r = TableReference_resolve_with_offset(@, e.infos, info_offset)]
    ELSE a

Descriptor_resolve_ok(d, e, info_offset, is_versioned_descriptor, checked) ==
    /\ TableReference_resolve_ok(d.group, e.groups)
    /\ DescriptorMetadataReference_resolve_ok(d.metadata, e.metadatas)
    /\ DescriptorLoadArguments_resolve_ok(d.load_args, e, info_offset,
                                          is_versioned_descriptor, checked)

Descriptor_resolve(d, e, info_offset, is_versioned_descriptor) ==
    [d EXCEPT !.group = TableReference_resolve(@, e.groups),
              !.metadata = DescriptorMetadataReference_resolve(@, e.metadatas),
              !.load_args = DescriptorLoadArguments_resolve(@, e, info_offset,
                                                            is_versioned_descriptor)]

Patch_resolve_ok(p, files, infos, groups, patch_index, info_offset, checked) ==
    /\ TableContiguousReference_resolve_ok(p.versioned_files, files, 0)
    /\ p.infos.t = "Unresolved" /\ info_offset < 0 => ~checked
    /\ TableContiguousReference_resolve_ok(p.infos, infos, info_offset)
    /\ TableReference_resolve_with_offset_ok(p.group, groups, patch_index, checked)

Patch_resolve(p, files, infos, groups, patch_index, info_offset) ==
    [p EXCEPT !.versioned_files = TableContiguousReference_resolve(@, files),
              !.infos = TableContiguousReference_resolve_with_offset(@, infos, info_offset),
              !.group = TableReference_resolve_with_offset(@, groups, patch_index)]

VersionedFile_resolve_ok(f, links, infos) ==
    /\ TableReference_resolve_ok(f.link, links)
    /\ TableReference_resolve_ok(f.info, infos)

VersionedFile_resolve(f, links, infos) ==
    [f EXCEPT !.link = TableReference_resolve(@, links),
              !.info = TableReference_resolve(@, infos)]

\* The two loops over packages and child packages and the resolution of
\* each group inside the loop over groups.
PackagedEngine_resolve_groups_ok(e) ==
    /\ \A c \in Range(e.packages) :
         Package_resolve_ok(e.heap[c], e.groups, e.infos, e.child_packages)
    /\ \A c \in Range(e.child_packages) :
         TableReference_resolve_ok(e.heap[c].package, e.packages)
    /\ \A i \in DOMAIN e.groups :
         Group_resolve_ok(e.heap[e.groups[i]], e.packages, e.groups, e.infos,
                          e.metadatas, i - 1)

PackagedEngine_resolve_groups(e) ==
    [c \in DOMAIN e.heap |->
        IF c \in Range(e.packages)
        THEN Package_resolve(e.heap[c], e.groups, e.infos, e.child_packages)
        ELSE IF c \in Range(e.child_packages)
        THEN ChildPackage_resolve(e.heap[c], e.packages)
        ELSE IF c \in Range(e.groups)
        THEN Group_resolve(e.heap[c], e.packages, e.groups, e.infos, e.metadatas,
                           IndexOf(e.groups, c) - 1)
        ELSE e.heap[c]]

\* info_group_info_start and version_group_info_start as the loop over the
\* groups leaves them: each is set from the first info of a group of its
\* kind for as long as it is still 0.
PackagedEngine_resolve_starts(heap, e, checked) ==
    FoldSeq(LAMBDA a, g :
                LET needI == is_info_group(heap[g]) /\ a.igis = 0
                    needV == is_version_group(heap[g]) /\ a.vgis = 0
                IN  IF ~a.ok \/ ~(needI \/ needV) THEN a
                    ELSE IF heap[g].files.cells = <<>> \/ e.infos = <<>>
                    THEN [a EXCEPT !.ok = FALSE]
                    ELSE LET d == heap[g].files.cells[1] - e.infos[1]
                         IN  IF d < 0 /\ checked THEN [a EXCEPT !.ok = FALSE]
                             ELSE [ok |-> TRUE,
                                   igis |-> IF needI THEN d ELSE a.igis,
                                   vgis |-> IF needV THEN d ELSE a.vgis],
            [ok |-> TRUE, igis |-> 0, vgis |-> 0], e.groups)

\* latest_patch_file_start, from the first info of the last group.
PackagedEngine_resolve_latest_ok(heap, e, vgis, checked) ==
    /\ e.groups # <<>>
    /\ is_info_group(heap[e.groups[Len(e.groups)]])
    /\ heap[e.groups[Len(e.groups)]].files.cells # <<>>
    /\ e.infos # <<>>
    /\ LET d == heap[e.groups[Len(e.groups)]].files.cells[1] - e.infos[1]
       IN  (d < 0 \/ ULess(d, vgis)) => ~checked

PackagedEngine_resolve_latest(heap, e, vgis) ==
    (heap[e.groups[Len(e.groups)]].files.cells[1] - e.infos[1]) - vgis

PackagedEngine_resolve_links_ok(heap, e, latest, checked) ==
    /\ \A c \in Range(e.paths) :
         Path_resolve_ok(heap[c], e.links, e.versioned_files, latest, checked)
    /\ \A c \in Range(e.links) :
         Link_resolve_ok(heap[c], e.packages, e.groups, e.infos)

PackagedEngine_resolve_links(heap, e, latest) ==
    [c \in DOMAIN heap |->
        IF c \in Range(e.paths)
        THEN Path_resolve(heap[c], e.links, e.versioned_files, latest)
        ELSE IF c \in Range(e.links)
        THEN Link_resolve(heap[c], e.packages, e.groups, e.infos)
        ELSE heap[c]]

\* The loop over infos: each info is resolved and then each of its
\* descriptors, with the offset and the versioned flag of the info's index.
PackagedEngine_resolve_infos(heap, e, igis, vgis, checked) ==
    FoldSeq(LAMBDA a, index :
                IF ~a.ok THEN a
                ELSE IF ~Info_resolve_ok(a.heap[e.infos[index + 1]], e.paths, e.links,
                                         e.descriptors)
                THEN [a EXCEPT !.ok = FALSE]
                ELSE LET c == e.infos[index + 1]
                         info == Info_resolve(a.heap[c], e.paths, e.links, e.descriptors)
                         info_offset == IF ~ULess(index, igis) THEN 0 ELSE igis
                         versioned == ~ULess(index, vgis)
                     IN  FoldSeq(LAMBDA b, d :
                                    IF ~b.ok THEN b
                                    ELSE IF ~Descriptor_resolve_ok(b.heap[d], e,
                                                info_offset, versioned, checked)
                                    THEN [b EXCEPT !.ok = FALSE]
                                    ELSE [b EXCEPT !.heap[d] =
                                            Descriptor_resolve(@, e, info_offset,
                                                               versioned)],
                                 [a EXCEPT !.heap[c] = info], info.descriptors.cells),
            [ok |-> TRUE, heap |-> heap], [i \in DOMAIN e.infos |-> i - 1])

PackagedEngine_resolve_patches_ok(heap, e, vgis, checked) ==
    /\ \A k \in DOMAIN e.patches :
         Patch_resolve_ok(heap[e.patches[k]], e.versioned_files, e.infos, e.groups,
                          k - 1, vgis, checked)
    /\ \A c \in Range(e.versioned_files) :
         VersionedFile_resolve_ok(heap[c], e.links, e.infos)

PackagedEngine_resolve_patches(heap, e, vgis) ==
    [c \in DOMAIN heap |->
        IF c \in Range(e.patches)
        THEN Patch_resolve(heap[c], e.versioned_files, e.infos, e.groups,
                           IndexOf(e.patches, c) - 1, vgis)
        ELSE IF c \in Range(e.versioned_files)
        THEN VersionedFile_resolve(heap[c], e.links, e.infos)
        ELSE heap[c]]

\* The whole of resolve: [ok |-> it completed, e |-> the engine after it].
PackagedEngine_resolve(e, checked) ==
    LET h1 == PackagedEngine_resolve_groups(e)
        starts == PackagedEngine_resolve_starts(h1, e, checked)
        latest == PackagedEngine_resolve_latest(h1, e, starts.vgis)
        h2 == PackagedEngine_resolve_links(h1, e, latest)
        r3 == PackagedEngine_resolve_infos(h2, e, starts.igis, starts.vgis, checked)
        failed == [ok |-> FALSE, e |-> e]
    IN  IF ~PackagedEngine_resolve_groups_ok(e) THEN failed
        ELSE IF ~starts.ok THEN failed
        ELSE IF ~PackagedEngine_resolve_latest_ok(h1, e, starts.vgis, checked) THEN failed
        ELSE IF ~PackagedEngine_resolve_links_ok(h1, e, latest, checked) THEN failed
        ELSE IF ~r3.ok THEN failed
        ELSE IF ~PackagedEngine_resolve_patches_ok(r3.heap, e, starts.vgis, checked)
        THEN failed
        ELSE [ok |-> TRUE,
              e |-> [e EXCEPT !.heap =
                        PackagedEngine_resolve_patches(r3.heap, e, starts.vgis)]]

(***************************************************************************)
(* PackagedEngine::add_file.  A path string is given by its hash and by    *)
(* the hashes of the components Utf8Path finds in it; a component the      *)
(* string lacks is NoComponent.  A package is named by its hash.           *)
(***************************************************************************)
NoComponent == [t |-> "None", v |-> 0]
Component(hash) == [t |-> "Some", v |-> hash]

EXT_NUTEXB == 201
EXT_ARC == 202
EXT_BNTX == 203
EXT_EFF == 204
EXT_BIN == 205

GRAPHICS_ARCHIVE_EXTENSIONS == {EXT_NUTEXB, EXT_ARC, EXT_BNTX, EXT_EFF}

\* A list of extensions that lacks nutexb.
has_graphics_archive_extension_without_nutexb(path) ==
    path.extension \in GRAPHICS_ARCHIVE_EXTENSIONS \ {EXT_NUTEXB}

has_graphics_archive_extension(path) == path.extension \in GRAPHICS_ARCHIVE_EXTENSIONS

Path_from_str_ok(file) ==
    /\ file.parent.t = "Some"
    /\ file.file_name.t = "Some"
    /\ file.extension.t = "Some"

Path_from_str(file) ==
    [full_path |-> file.full_path,
     extension |-> file.extension.v,
     parent |-> file.parent.v,
     file_name |-> file.file_name.v,
     link |-> Unresolved(INVALID_INDEX),
     versioned_file |-> None]

Metadata_new == [data |-> -1]

DescriptorLoadArguments_new == [tag |-> "Owned", r |-> None]

Descriptor_new ==
    [group |-> Unresolved(INVALID_INDEX), metadata |-> None,
     load_args |-> DescriptorLoadArguments_new]

Link_new == [owner |-> Unresolved(INVALID_INDEX), info |-> Unresolved(INVALID_INDEX)]

Info_new ==
    [path |-> Unresolved(INVALID_INDEX), link |-> Unresolved(INVALID_INDEX),
     descriptors |-> SetUnresolved(INVALID_INDEX, INVALID_INDEX),
     is_regular_file |-> TRUE, is_graphics_archive |-> FALSE,
     is_localized |-> FALSE, is_regional |-> FALSE, is_shared |-> FALSE,
     is_unknown_flag |-> FALSE]

\* A lookup that finds no file.
has_file_never(e, hash) == FALSE

has_file(e, hash) == hash \in DOMAIN e.file_lookup.map
has_package(e, hash) == hash \in DOMAIN e.package_lookup

\* [ok |-> add_file returned, e |-> the engine after the call, info |-> the
\* cell returned].  The new cells take the next GUIDs in the order the code
\* creates them: Metadata, Descriptor, Link, Path, Info.
PackagedEngine_add_file(e, file, package) ==
    LET failed == [ok |-> FALSE, e |-> e, info |-> 0]
        n == Len(e.heap)
        pc == e.package_lookup[package]
        g0 == e.heap[pc].groups.cells[1]
        metadata == Metadata_new
        descriptor == [Descriptor_new EXCEPT !.metadata = Variant("Metadata", n + 1),
                                             !.group = Resolved(g0)]
        link == [Link_new EXCEPT !.owner = Variant("Package", pc)]
        path == [Path_from_str(file) EXCEPT !.link = Resolved(n + 3)]
        info == [Info_new EXCEPT
                    !.descriptors = SetResolved(<<n + 2>>),
                    !.link = Resolved(n + 3),
                    !.is_graphics_archive = has_graphics_archive_extension(path),
                    !.is_regular_file = ~has_graphics_archive_extension(path),
                    !.path = Resolved(n + 4)]
        pushed == [e.heap EXCEPT ![g0].files.cells = Append(@, n + 1)]
    IN  IF has_file(e, file.full_path) THEN failed
        ELSE IF ~has_package(e, package) THEN failed
        ELSE IF ~Cells_ok(e.heap[pc].groups) \/ e.heap[pc].groups.cells = <<>> THEN failed
        ELSE IF ~is_metadata_group(e.heap[g0]) THEN failed
        ELSE IF ~Path_from_str_ok(file)
        THEN [ok |-> FALSE, info |-> 0,
              e |-> [e EXCEPT !.heap = pushed \o <<metadata, descriptor, link>>]]
        ELSE IF ~Cells_ok(e.heap[pc].infos)
        THEN [ok |-> FALSE, info |-> 0,
              e |-> [e EXCEPT
                        !.heap = pushed \o <<metadata, descriptor, link, path, info>>,
                        !.file_lookup = BucketMap_insert(@, path.full_path, n + 4)]]
        ELSE [ok |-> TRUE, info |-> n + 5,
              e |-> [e EXCEPT
                        !.heap = [pushed EXCEPT ![pc].infos.cells = Append(@, n + 5)]
                                 \o <<metadata, descriptor,
                                      [link EXCEPT !.info = Resolved(n + 5)],
                                      path, info>>,
                        !.file_lookup = BucketMap_insert(@, path.full_path, n + 4)]]

\* The path strings and package hashes the caller passes to add_file: a
\* graphics archive, a regular file, a string without an extension, and a
\* string whose hash is that of the first path of the images; the hashes of
\* the images' packages and one that no image has.
FileStrings ==
    {[full_path |-> 51, parent |-> Component(61), file_name |-> Component(71),
      extension |-> Component(EXT_NUTEXB)],
     [full_path |-> 52, parent |-> Component(61), file_name |-> Component(72),
      extension |-> Component(EXT_BIN)],
     [full_path |-> 53, parent |-> Component(EMPTY_HASH), file_name |-> Component(53),
      extension |-> NoComponent],
     [full_path |-> 11, parent |-> Component(1), file_name |-> Component(11),
      extension |-> Component(3)]}

PackageHashes == {100, 101, 102}

(***************************************************************************)
(* SearchEngine::add_file.  The helpers it calls on SearchFolder and       *)
(* SearchPath (get_child_by_name, push_child, SearchPath::from_str) follow *)
(* the description of add_file in section 4.3 of the specification.        *)
(***************************************************************************)
\* Hash40::new("/"): the hash of the root folder, folder 1 of the images.
ROOT_HASH == 1

\* The strings add_file is called with: the file strings above and a file in
\* folder 2 of the images.
SearchFileStrings ==
    FileStrings \cup
    {[full_path |-> 54, parent |-> Component(2), file_name |-> Component(74),
      extension |-> Component(EXT_BIN)]}

\* Utf8Path::components with the path joined up to each component: the
\* folder of the string, unless it is the root, and the file name.
Utf8Path_components(file) ==
    LET folder == [full_path |-> file.parent.v, parent |-> ROOT_HASH,
                   name |-> file.parent.v, extension |-> NoComponent]
        leaf == [full_path |-> file.full_path,
                 parent |-> IF file.parent.v = EMPTY_HASH THEN ROOT_HASH
                            ELSE file.parent.v,
                 name |-> file.file_name.v, extension |-> file.extension]
    IN  IF file.parent.v \in {EMPTY_HASH, ROOT_HASH} THEN <<leaf>>
        ELSE <<folder, leaf>>

\* SearchPath::from_str: a string without an extension makes a folder, whose
\* SearchFolder is the cell `folder`.
SearchPath_from_str(s, folder) ==
    [full_path |-> s.full_path, parent |-> s.parent, name |-> s.name,
     extension |-> s.extension.v,
     folder |-> IF s.extension.t = "None" THEN Variant("Folder", folder) ELSE None,
     next |-> None]

\* The SearchFolder made along with the SearchPath of a folder.
SearchFolder_from_str(s) ==
    [full_path |-> s.full_path, parent |-> s.parent, name |-> s.name,
     file_count |-> 0, folder_count |-> 0, children |-> SetResolved(<<>>)]

\* SearchFolder::get_child_by_name: the first child with that name.
SearchFolder_get_child_by_name(heap, folder, name) ==
    LET cells == heap[folder].children.cells
        named == {i \in DOMAIN cells : heap[cells[i]].name = name}
    IN  IF named = {} THEN None
        ELSE Variant("Some", cells[CHOOSE i \in named : \A j \in named : i <= j])

\* SearchFolder::push_child: TableReferenceSet::push on the child list.
SearchFolder_push_child(heap, folder, path) ==
    [heap EXCEPT ![folder].children.cells = Append(@, path)]

\* One intermediate component: the child folder of that name, or a new
\* SearchPath and SearchFolder; `a.cur` is current_folder.
SearchEngine_add_file_component(a, s) ==
    IF ~a.ok THEN a
    ELSE IF ~Cells_ok(a.e.heap[a.cur].children) THEN [a EXCEPT !.ok = FALSE]
    ELSE LET child == SearchFolder_get_child_by_name(a.e.heap, a.cur, s.name)
             n == Len(a.e.heap)
             new_path == SearchPath_from_str(s, n + 1)
             lookedup == [a.e EXCEPT !.path_lookup =
                             [h \in DOMAIN @ \cup {s.full_path} |->
                                 IF h = s.full_path THEN n + 2 ELSE @[h]]]
             pushed == [lookedup EXCEPT !.heap =
                           SearchFolder_push_child(
                               a.e.heap \o <<SearchFolder_from_str(s), new_path>>,
                               a.cur, n + 2)]
         IN  IF child.t = "Some"
             THEN IF a.e.heap[child.v].folder.t = "Folder"
                  THEN [a EXCEPT !.cur = a.e.heap[child.v].folder.v]
                  ELSE [a EXCEPT !.ok = FALSE]
             ELSE IF new_path.folder.t # "Folder"
             THEN [a EXCEPT !.ok = FALSE, !.e = pushed]
             ELSE [a EXCEPT !.cur = n + 1,
                            !.e = [pushed EXCEPT !.folder_lookup =
                                      [h \in DOMAIN @ \cup {s.full_path} |->
                                          IF h = s.full_path THEN n + 1 ELSE @[h]]]]

\* SearchEngine::add_file; `e` is the engine as the call leaves it, also
\* when it panics.
SearchEngine_add_file(e, file) ==
    LET components == Utf8Path_components(file)
        s == components[Len(components)]
        n == IF ROOT_HASH \in DOMAIN e.folder_lookup
             THEN e.folder_lookup[ROOT_HASH] ELSE 0
        a == FoldSeq(SearchEngine_add_file_component,
                     [ok |-> TRUE, e |-> e, cur |-> n],
                     SubSeq(components, 1, Len(components) - 1))
        path == SearchPath_from_str(s, 0)
        p == Len(a.e.heap) + 1
        lookedup == [a.e EXCEPT !.heap = Append(@, path),
                                !.path_lookup =
                                   [h \in DOMAIN @ \cup {s.full_path} |->
                                       IF h = s.full_path THEN p ELSE @[h]]]
    IN  IF ROOT_HASH \notin DOMAIN e.folder_lookup THEN [ok |-> FALSE, e |-> e]
        ELSE IF ~a.ok THEN [ok |-> FALSE, e |-> a.e]
        ELSE IF path.folder.t = "Folder" THEN [ok |-> FALSE, e |-> a.e]
        ELSE IF ~Cells_ok(a.e.heap[a.cur].children)
        THEN [ok |-> FALSE, e |-> lookedup]
        ELSE [ok |-> TRUE,
              e |-> [lookedup EXCEPT !.heap =
                        SearchFolder_push_child(@, a.cur, p)]]

(***************************************************************************)
(* PackagedWriter: the tables rebuilt by walking the engine.  A step that  *)
(* panics leaves the writer with ok = FALSE.                               *)
(***************************************************************************)
Writer_fail(w) == [w EXCEPT !.ok = FALSE]

PackagedWriter_push_metadata(w, metadata) == Writer_push(w, "metadatas", metadata)

PackagedWriter_push_path(w, path) == Writer_push(w, "paths", path)

PackagedWriter_push_link(w, link) == Writer_push(w, "links", link)

PackagedWriter_push_child_package(w, child_package) ==
    Writer_push(w, "child_packages", child_package)

PackagedWriter_push_versioned_file(w, versioned_file) ==
    Writer_push(w, "versioned_files", versioned_file)

PackagedWriter_push_descriptor(w, descriptor, is_info_group_descriptor,
                               is_version_group_descriptor) ==
    LET w1 == Writer_push(w, "descriptors", descriptor)
        d == w.heap[descriptor]
    IN  IF ~w1.ok THEN w1
        ELSE IF is_version_group_descriptor
        THEN IF d.load_args.tag # "Owned" THEN w1
             ELSE IF d.load_args.r.t # "Patch" THEN Writer_fail(w1)
             ELSE IF /\ TableMaker_has_cell(w1.patches, d.load_args.r.v)
                     /\ d.metadata.t = "Metadata"
                     /\ ~TableMaker_has_cell(w1.metadatas, d.metadata.v)
             THEN PackagedWriter_push_metadata(w1, d.metadata.v)
             ELSE w1
        ELSE IF is_info_group_descriptor
        THEN IF d.metadata.t # "Metadata" THEN Writer_fail(w1)
             ELSE PackagedWriter_push_metadata(w1, d.metadata.v)
        ELSE w1

PackagedWriter_push_info(w, info, is_info_group_info, is_version_group_info) ==
    LET i == w.heap[info]
        Descriptors(w1) ==
            IF ~w1.ok THEN w1
            ELSE IF ~Cells_ok(i.descriptors) THEN Writer_fail(w1)
            ELSE FoldSeq(LAMBDA a, d :
                             IF ~a.ok THEN a
                             ELSE PackagedWriter_push_descriptor(a, d, is_info_group_info,
                                                                 is_version_group_info),
                         w1, i.descriptors.cells)
        LinkOf(w2) ==
            IF ~w2.ok THEN w2
            ELSE IF ~is_info_group_info /\ ~i.is_shared /\ i.descriptors.cells = <<>>
            THEN Writer_fail(w2)
            ELSE IF \/ i.is_shared
                    \/ /\ ~is_info_group_info
                       /\ w.heap[i.descriptors.cells[1]].load_args.tag = "PackageSkip"
            THEN w2
            ELSE IF i.link.t # "Resolved" THEN Writer_fail(w2)
            ELSE IF TableMaker_has_cell(w2.links, i.link.v) THEN w2
            ELSE PackagedWriter_push_link(w2, i.link.v)
        PathOf(w3) ==
            IF ~w3.ok \/ is_info_group_info THEN w3
            ELSE IF i.path.t # "Resolved" THEN Writer_fail(w3)
            ELSE IF TableMaker_has_cell(w3.paths, i.path.v) THEN w3
            ELSE PackagedWriter_push_path(w3, i.path.v)
    IN  PathOf(LinkOf(Descriptors(Writer_push(w, "infos", info))))

PackagedWriter_push_group(w, group) ==
    LET g == w.heap[group]
        Files(w1) ==
            IF ~w1.ok THEN w1
            ELSE IF is_metadata_group(g)
            THEN FoldSeq(LAMBDA a, m :
                             IF ~a.ok \/ TableMaker_has_cell(a.metadatas, m) THEN a
                             ELSE PackagedWriter_push_metadata(a, m),
                         w1, g.files.cells)
            ELSE IF ~is_info_group(g) THEN Writer_fail(w1)
            ELSE FoldSeq(LAMBDA a, i :
                             IF ~a.ok THEN a
                             ELSE PackagedWriter_push_info(a, i, TRUE, is_version_group(g)),
                         w1, g.files.cells)
    IN  Files(Writer_push(w, "groups", group))

\* A push_package that walks the package's groups from the last to the
\* first.
PackagedWriter_push_package_groups_reversed(w, package) ==
    LET p == w.heap[package]
        Groups(w1) ==
            IF ~w1.ok THEN w1
            ELSE IF ~Cells_ok(p.groups) THEN Writer_fail(w1)
            ELSE FoldSeq(LAMBDA a, g :
                             IF ~a.ok THEN a ELSE PackagedWriter_push_group(a, g),
                         w1, [k \in DOMAIN p.groups.cells |->
                                 p.groups.cells[Len(p.groups.cells) + 1 - k]])
        ChildPackages(w2) ==
            IF ~w2.ok THEN w2
            ELSE IF ~Cells_ok(p.child_packages) THEN Writer_fail(w2)
            ELSE FoldSeq(LAMBDA a, c :
                             IF ~a.ok THEN a ELSE PackagedWriter_push_child_package(a, c),
                         w2, p.child_packages.cells)
        Infos(w3) ==
            IF ~w3.ok THEN w3
            ELSE IF ~Cells_ok(p.infos) THEN Writer_fail(w3)
            ELSE FoldSeq(LAMBDA a, i :
                             IF ~a.ok THEN a
                             ELSE PackagedWriter_push_info(a, i, FALSE, FALSE),
                         w3, p.infos.cells)
    IN  Infos(ChildPackages(Groups(Writer_push(w, "packages", package))))

PackagedWriter_push_package(w, package) ==
    LET p == w.heap[package]
        Groups(w1) ==
            IF ~w1.ok THEN w1
            ELSE IF ~Cells_ok(p.groups) THEN Writer_fail(w1)
            ELSE FoldSeq(LAMBDA a, g :
                             IF ~a.ok THEN a ELSE PackagedWriter_push_group(a, g),
                         w1, p.groups.cells)
        ChildPackages(w2) ==
            IF ~w2.ok THEN w2
            ELSE IF ~Cells_ok(p.child_packages) THEN Writer_fail(w2)
            ELSE FoldSeq(LAMBDA a, c :
                             IF ~a.ok THEN a ELSE PackagedWriter_push_child_package(a, c),
                         w2, p.child_packages.cells)
        Infos(w3) ==
            IF ~w3.ok THEN w3
            ELSE IF ~Cells_ok(p.infos) THEN Writer_fail(w3)
            ELSE FoldSeq(LAMBDA a, i :
                             IF ~a.ok THEN a
                             ELSE PackagedWriter_push_info(a, i, FALSE, FALSE),
                         w3, p.infos.cells)
    IN  Infos(ChildPackages(Groups(Writer_push(w, "packages", package))))

PackagedWriter_push_patch(w, patch) ==
    LET p == w.heap[patch]
        VersionedFiles(w1) ==
            IF ~w1.ok THEN w1
            ELSE IF ~Cells_ok(p.versioned_files) THEN Writer_fail(w1)
            ELSE FoldSeq(LAMBDA a, f :
                             IF ~a.ok THEN a
                             ELSE PackagedWriter_push_versioned_file(a, f),
                         w1, p.versioned_files.cells)
        GroupOf(w2) ==
            IF ~w2.ok THEN w2
            ELSE IF p.group.t # "Resolved" THEN Writer_fail(w2)
            ELSE PackagedWriter_push_group(w2, p.group.v)
        Infos(w3) ==
            IF ~w3.ok THEN w3
            ELSE IF ~Cells_ok(p.infos) THEN Writer_fail(w3)
            ELSE FoldSeq(LAMBDA a, i :
                             IF ~a.ok THEN a
                             ELSE PackagedWriter_push_info(a, i, TRUE, TRUE),
                         w3, SubSeq(p.infos.cells,
                                    Len(w.heap[p.group.v].files.cells) + 1,
                                    Len(p.infos.cells)))
    IN  Infos(GroupOf(VersionedFiles(Writer_push(w, "patches", patch))))

PackagedWriter_new(e) ==
    [ok |-> TRUE, heap |-> e.heap,
     package_lookup |-> e.package_lookup, file_lookup |-> e.file_lookup,
     packages |-> <<>>, child_packages |-> <<>>, groups |-> <<>>, paths |-> <<>>,
     links |-> <<>>, infos |-> <<>>, descriptors |-> <<>>, metadatas |-> <<>>,
     patches |-> <<>>, versioned_files |-> <<>>,
     last_patch_files_start |-> 0, info_group_info_start |-> 0]

\* The loop over the engine's packages.
PackagedWriter_from_engine_packages(w, e) ==
    FoldSeq(LAMBDA a, p : IF ~a.ok THEN a ELSE PackagedWriter_push_package(a, p),
            w, e.packages)

\* The first info the writer holds of an info-group, remembered once.
PackagedWriter_info_group_info_start(a1, g) ==
    IF ~a1.ok \/ a1.info_group_info_start # 0 THEN a1
    ELSE IF g.files.cells = <<>> THEN Writer_fail(a1)
    ELSE [a1 EXCEPT !.info_group_info_start =
             TableMaker_get_index(a1.infos, g.files.cells[1])]

\* The loop over the engine's groups: the info-groups that are not
\* version-groups, in table order.
PackagedWriter_from_engine_groups(w, e) ==
    FoldSeq(LAMBDA a, g :
                IF ~a.ok THEN a
                ELSE IF ~(is_info_group(e.heap[g]) /\ ~is_version_group(e.heap[g])) THEN a
                ELSE PackagedWriter_info_group_info_start(
                         PackagedWriter_push_group(a, g), e.heap[g]),
            w, e.groups)

\* The first versioned file of the last patch, remembered for the paths.
PackagedWriter_last_patch_files_start(w1, e) ==
    IF ~w1.ok \/ e.patches = <<>> THEN w1
    ELSE IF e.heap[e.patches[Len(e.patches)]].versioned_files.cells = <<>>
    THEN Writer_fail(w1)
    ELSE [w1 EXCEPT !.last_patch_files_start =
             TableMaker_get_index(
                 w1.versioned_files,
                 e.heap[e.patches[Len(e.patches)]].versioned_files.cells[1])]

PackagedWriter_from_engine_patches(w, e) ==
    PackagedWriter_last_patch_files_start(
        FoldSeq(LAMBDA a, p : IF ~a.ok THEN a ELSE PackagedWriter_push_patch(a, p),
                w, e.patches),
        e)

\* A walk that visits the patches before the info-groups.
PackagedWriter_from_engine_patches_first(e) ==
    PackagedWriter_from_engine_groups(
        PackagedWriter_from_engine_patches(
            PackagedWriter_from_engine_packages(PackagedWriter_new(e), e), e), e)

\* A walk that visits the packages from the last to the first.
PackagedWriter_from_engine_packages_reversed(e) ==
    PackagedWriter_from_engine_patches(
        PackagedWriter_from_engine_groups(
            PackagedWriter_from_engine_packages(
                PackagedWriter_new(e),
                [e EXCEPT !.packages =
                    [i \in DOMAIN @ |-> @[Len(@) + 1 - i]]]), e), e)

PackagedWriter_from_engine(e) ==
    PackagedWriter_from_engine_patches(
        PackagedWriter_from_engine_groups(
            PackagedWriter_from_engine_packages(PackagedWriter_new(e), e), e), e)

\* The engine reorganize builds from the writer's tables.
PackagedEngine_from_writer(w) ==
    [heap |-> w.heap,
     package_lookup |-> w.package_lookup, file_lookup |-> w.file_lookup,
     packages |-> w.packages, child_packages |-> w.child_packages,
     groups |-> w.groups, paths |-> w.paths, links |-> w.links,
     infos |-> w.infos, descriptors |-> w.descriptors,
     metadatas |-> w.metadatas, patches |-> w.patches,
     versioned_files |-> w.versioned_files]

PackagedEngine_reorganize(e) == PackagedEngine_from_writer(PackagedWriter_from_engine(e))

(***************************************************************************)
(* impl BinWrite: each record as the words it is written as.  X_write_ok   *)
(* is FALSE when writing X panics (a cell that is not in the new table, a  *)
(* reference of another variant, an empty list that is indexed).           *)
(***************************************************************************)
\* A resolved reference whose cell the new table holds.
Indexed(r, variant, table) == r.t = variant /\ TableMaker_has_cell(table, r.v)

\* A resolved, non-empty list whose first cell the new table holds.
FirstIndexed(r, table) ==
    Cells_ok(r) /\ r.cells # <<>> /\ TableMaker_has_cell(table, r.cells[1])

\* The (start, count) pair written for a list: (0, 0) when it is empty.
Range_write_ok(r, table) ==
    r.cells # <<>> => TableMaker_has_cell(table, r.cells[1])

Range_start(r, table) ==
    IF r.cells = <<>> THEN 0 ELSE TableMaker_get_index(table, r.cells[1])

Package_write_ok(w, p) ==
    /\ FirstIndexed(p.groups, w.groups)
    /\ Cells_ok(p.infos) /\ Range_write_ok(p.infos, w.infos)
    /\ Cells_ok(p.child_packages) /\ Range_write_ok(p.child_packages, w.child_packages)

Package_write(w, p) ==
    [path |-> HashKey_new(p.full_path, TableMaker_get_index(w.groups, p.groups.cells[1])),
     info_start |-> Range_start(p.infos, w.infos),
     info_count |-> Len(p.infos.cells),
     child_package_start |-> Range_start(p.child_packages, w.child_packages),
     child_package_count |-> Len(p.child_packages.cells),
     flags |-> (IF p.is_localized THEN {24} ELSE {})
               \cup (IF p.is_regional THEN {25} ELSE {})
               \cup (IF p.has_sub_package THEN {26} ELSE {})
               \cup (IF p.sym_link_is_regional THEN {27} ELSE {})
               \cup (IF p.is_sym_link THEN {28} ELSE {})]

ChildPackage_write_ok(w, c) == Indexed(c.package, "Resolved", w.packages)

ChildPackage_write(w, c) ==
    HashKey_new(c.full_path, TableMaker_get_index(w.packages, c.package.v))

Group_write_ok(w, g) ==
    IF is_info_group(g)
    THEN /\ Range_write_ok(g.files, w.infos)
         /\ ~is_version_group(g) => Indexed(g.sub_package, "Group", w.groups)
    ELSE /\ is_metadata_group(g)
         /\ Range_write_ok(g.files, w.metadatas)
         /\ g.sub_package.t = "Group" => TableMaker_has_cell(w.groups, g.sub_package.v)
         /\ g.sub_package.t = "Package" => TableMaker_has_cell(w.packages, g.sub_package.v)

Group_write(w, g) ==
    [range_start |-> Range_start(g.files, IF is_info_group(g) THEN w.infos ELSE w.metadatas),
     range_count |-> Len(g.files.cells),
     sub_package |->
         IF is_version_group(g) THEN 0
         ELSE IF g.sub_package.t = "Group"
         THEN TableMaker_get_index(w.groups, g.sub_package.v)
         ELSE IF g.sub_package.t = "Package"
         THEN TableMaker_get_index(w.packages, g.sub_package.v)
         ELSE INVALID_INDEX]

\* A path written with the table index of its versioned file.
Path_write_absolute(w, p) ==
    [path |-> HashKey_new(p.full_path, TableMaker_get_index(w.links, p.link.v)),
     ext |-> HashKey_new(p.extension,
                IF p.versioned_file.t = "VersionedFile"
                THEN TableMaker_get_index(w.versioned_files, p.versioned_file.v)
                ELSE INVALID_INDEX),
     parent |-> p.parent,
     file_name |-> p.file_name]

Path_write_ok(w, p, checked) ==
    /\ Indexed(p.link, "Resolved", w.links)
    /\ p.versioned_file.t = "VersionedFile" =>
         /\ TableMaker_has_cell(w.versioned_files, p.versioned_file.v)
         /\ ULess(TableMaker_get_index(w.versioned_files, p.versioned_file.v),
                  w.last_patch_files_start) => ~checked

Path_write(w, p) ==
    [path |-> HashKey_new(p.full_path, TableMaker_get_index(w.links, p.link.v)),
     ext |-> HashKey_new(p.extension,
                IF p.versioned_file.t = "VersionedFile"
                THEN TableMaker_get_index(w.versioned_files, p.versioned_file.v)
                     - w.last_patch_files_start
                ELSE INVALID_INDEX),
     parent |-> p.parent,
     file_name |-> p.file_name]

Link_write_ok(w, l) ==
    /\ IF l.owner.t = "Package" THEN TableMaker_has_cell(w.packages, l.owner.v)
       ELSE Indexed(l.owner, "Group", w.groups)
    /\ Indexed(l.info, "Resolved", w.infos)

Link_write(w, l) ==
    [owner |-> IF l.owner.t = "Package" THEN TableMaker_get_index(w.packages, l.owner.v)
               ELSE TableMaker_get_index(w.groups, l.owner.v),
     info |-> TableMaker_get_index(w.infos, l.info.v)]

Info_write_ok(w, i) ==
    /\ Indexed(i.path, "Resolved", w.paths)
    /\ Indexed(i.link, "Resolved", w.links)
    /\ FirstIndexed(i.descriptors, w.descriptors)

Info_write(w, i) ==
    [path |-> TableMaker_get_index(w.paths, i.path.v),
     link |-> TableMaker_get_index(w.links, i.link.v),
     descriptor_index |-> TableMaker_get_index(w.descriptors, i.descriptors.cells[1]),
     flags |-> (IF i.is_regular_file THEN {4} ELSE {})
               \cup (IF i.is_graphics_archive THEN {12} ELSE {})
               \cup (IF i.is_localized THEN {15} ELSE {})
               \cup (IF i.is_regional THEN {16} ELSE {})
               \cup (IF i.is_shared THEN {20} ELSE {})
               \cup (IF i.is_unknown_flag THEN {21} ELSE {})]

\* The word of the load arguments.  PackageSkip subtracts the offset from
\* the info's index in 32 bits and ORs the tag over the difference.
DescriptorLoadArguments_write_ok(w, a, info_offset, checked) ==
    IF a.tag \in {"Unowned", "SharedButOwned"} THEN Indexed(a.r, "Resolved", w.links)
    ELSE IF a.tag = "Owned" THEN a.r.t = "Patch" => TableMaker_has_cell(w.patches, a.r.v)
    ELSE IF a.tag = "PackageSkip"
    THEN /\ Indexed(a.r, "Resolved", w.infos)
         /\ ULess(TableMaker_get_index(w.infos, a.r.v), info_offset) => ~checked
    ELSE TRUE

DescriptorLoadArguments_write(w, a, info_offset) ==
    IF a.tag = "Unowned"
    THEN [tag |-> 0, payload |-> TableMaker_get_index(w.links, a.r.v) % INDEX_MODULUS]
    ELSE IF a.tag = "Owned"
    THEN [tag |-> 1,
          payload |-> IF a.r.t = "Patch"
                      THEN TableMaker_get_index(w.patches, a.r.v) % INDEX_MODULUS
                      ELSE 0]
    ELSE IF a.tag = "PackageSkip"
    THEN LET index == TableMaker_get_index(w.infos, a.r.v) - info_offset
         IN  IF 0 <= index /\ index < INDEX_MODULUS
             THEN [tag |-> 3, payload |-> index]
             ELSE [tag |-> 255, payload |-> index % INDEX_MODULUS]
    ELSE IF a.tag = "Unknown" THEN [tag |-> 5, payload |-> 0]
    ELSE IF a.tag = "SharedButOwned"
    THEN [tag |-> 9, payload |-> TableMaker_get_index(w.links, a.r.v) % INDEX_MODULUS]
    ELSE [tag |-> 16, payload |-> a.r.v]

Descriptor_write_ok(w, d, info_offset, checked) ==
    /\ Indexed(d.group, "Resolved", w.groups)
    /\ d.metadata.t = "Metadata" => TableMaker_has_cell(w.metadatas, d.metadata.v)
    /\ DescriptorLoadArguments_write_ok(w, d.load_args, info_offset, checked)

Descriptor_write(w, d, info_offset) ==
    [group |-> TableMaker_get_index(w.groups, d.group.v),
     metadata |-> IF d.metadata.t = "Metadata"
                  THEN TableMaker_get_index(w.metadatas, d.metadata.v)
                  ELSE INVALID_INDEX,
     load_args |-> DescriptorLoadArguments_write(w, d.load_args, info_offset)]

Metadata_write(m) == m.data

\* The hashes of a bucket map in the order its buckets are walked: by
\* bucket, and by hash inside a bucket.
HASH_LIMIT == 1048576
BucketOrder(count, hashes) ==
    LET keys == SortedSeq({(h % count) * HASH_LIMIT + h : h \in hashes})
    IN  [i \in DOMAIN keys |-> keys[i] % HASH_LIMIT]

BucketMap_keys(m, Index(_)) ==
    LET hs == BucketOrder(m.count, DOMAIN m.map)
    IN  [i \in DOMAIN hs |-> HashKey_new(hs[i], Index(m.map[hs[i]]))]

\* The lookup write_body builds: the position in the patch of each file,
\* keyed by the file's path.
Patch_lookup(paths) ==
    FoldSeq(LAMBDA m, index : BucketMap_insert(m, paths[index + 1], index),
            [count |-> PATCH_BUCKETS, map |-> <<>>],
            [i \in DOMAIN paths |-> i - 1])

VersionedFile_write_ok(w, f) ==
    /\ Indexed(f.info, "Resolved", w.infos)
    /\ Indexed(f.link, "Resolved", w.links)

VersionedFile_write(w, f, group_index) ==
    [path |-> HashKey_new(f.path, IF f.changed_this_patch THEN 0 ELSE INDEX_MODULUS),
     info |-> TableMaker_get_index(w.infos, f.info.v),
     group_index_start |-> group_index,
     link |-> TableMaker_get_index(w.links, f.link.v)]

Patch_write_header_ok(w, p, patch_id, checked) ==
    /\ FirstIndexed(p.versioned_files, w.versioned_files)
    /\ Indexed(p.group, "Resolved", w.groups)
    /\ TableMaker_get_index(w.groups, p.group.v) < patch_id => ~checked
    /\ Cells_ok(p.infos)
    /\ \A i \in Range(p.infos.cells) : Cells_ok(w.heap[i].descriptors)
    /\ is_info_group(w.heap[p.group.v])

Patch_write_header(w, p, patch_id) ==
    [file_count |-> Len(p.versioned_files.cells),
     group |-> TableMaker_get_index(w.groups, p.group.v) - patch_id,
     file_start |-> TableMaker_get_index(w.versioned_files, p.versioned_files.cells[1]),
     lookup_size_in_bytes |-> 8 * (Len(p.versioned_files.cells) + PATCH_BUCKETS + 1),
     info_count |-> Len(p.infos.cells),
     descriptor_count |->
         SumSeq([i \in DOMAIN p.infos.cells |->
                    Len(w.heap[p.infos.cells[i]].descriptors.cells)]),
     num_changed_this_patch |-> Len(w.heap[p.group.v].files.cells)]

Patch_write_body_ok(w, p) ==
    /\ Indexed(p.group, "Resolved", w.groups)
    /\ Cells_ok(p.versioned_files)
    /\ \A f \in Range(p.versioned_files.cells) : VersionedFile_write_ok(w, w.heap[f])

\* The body: the files, the number of buckets, the number of keys, one
\* (start, end) entry per bucket (not kept: there are bucket_count of
\* them), and the keys.
Patch_write_body(w, p) ==
    LET lookup == Patch_lookup([i \in DOMAIN p.versioned_files.cells |->
                                   w.heap[p.versioned_files.cells[i]].path])
    IN  [files |-> [i \in DOMAIN p.versioned_files.cells |->
                       VersionedFile_write(w, w.heap[p.versioned_files.cells[i]],
                           TableMaker_get_index(w.groups, p.group.v))],
         bucket_count |-> lookup.count,
         lookup_count |-> BucketMap_len(lookup),
         keys |-> BucketMap_keys(lookup, LAMBDA index : index)]

\* The number of bytes of a body after its files: two words, the bucket
\* entries and the keys, 8 bytes each.
Patch_body_lookup_bytes(body) == 4 + 4 + 8 * body.bucket_count + 8 * Len(body.keys)

\* ToMemoryResults as the loop over the groups leaves it.
PackagedWriter_to_memory_groups(w, checked) ==
    FoldSeq(LAMBDA a, count :
                LET g == w.heap[w.groups[count + 1]]
                    first == a.packaged_info_len = 0 /\ is_info_group(g)
                    second == ~first /\ a.group_info_len = 0 /\ is_version_group(g)
                    info == g.files.cells[1]
                    desc == w.heap[info].descriptors.cells[1]
                    data == w.heap[desc].metadata
                    ii == TableMaker_get_index(w.infos, info)
                    di == TableMaker_get_index(w.descriptors, desc)
                    mi == TableMaker_get_index(w.metadatas, data.v)
                IN  IF ~a.ok \/ ~(first \/ second) THEN a
                    ELSE IF \/ g.files.cells = <<>>
                            \/ ~FirstIndexed(w.heap[info].descriptors, w.descriptors)
                            \/ ~Indexed(data, "Metadata", w.metadatas)
                            \/ ~TableMaker_has_cell(w.infos, info)
                    THEN [a EXCEPT !.ok = FALSE]
                    ELSE IF first
                    THEN [a EXCEPT !.packaged_info_len = ii,
                                   !.packaged_descriptor_len = di,
                                   !.packaged_data_len = mi,
                                   !.metadata_group_len = count]
                    ELSE IF checked /\ (\/ ULess(ii, a.packaged_info_len)
                                        \/ ULess(di, a.packaged_descriptor_len)
                                        \/ ULess(mi, a.packaged_data_len)
                                        \/ ULess(count, a.metadata_group_len))
                    THEN [a EXCEPT !.ok = FALSE]
                    ELSE [a EXCEPT !.group_info_len = ii - a.packaged_info_len,
                                   !.group_descriptor_len = di - a.packaged_descriptor_len,
                                   !.group_data_len = mi - a.packaged_data_len,
                                   !.info_group_len = count - a.metadata_group_len],
            [ok |-> TRUE, packaged_info_len |-> 0, group_info_len |-> 0,
             packaged_descriptor_len |-> 0, group_descriptor_len |-> 0,
             packaged_data_len |-> 0, group_data_len |-> 0,
             metadata_group_len |-> 0, info_group_len |-> 0],
            [i \in DOMAIN w.groups |-> i - 1])

\* The four differences taken after the loop; each can leave the range.
PackagedWriter_to_memory_versions_ok(w, r, checked) ==
    checked =>
        /\ ~ULess(Len(w.infos), r.group_info_len)
        /\ ~ULess(Len(w.infos) - r.group_info_len, r.packaged_info_len)
        /\ ~ULess(Len(w.descriptors), r.group_descriptor_len)
        /\ ~ULess(Len(w.descriptors) - r.group_descriptor_len, r.packaged_descriptor_len)
        /\ ~ULess(Len(w.metadatas), r.group_data_len)
        /\ ~ULess(Len(w.metadatas) - r.group_data_len, r.packaged_data_len)
        /\ ~ULess(Len(w.groups), r.info_group_len)
        /\ ~ULess(Len(w.groups) - r.info_group_len, r.metadata_group_len)

\* The offset a descriptor is written with, by its position in the table.
PackagedWriter_info_offset(r, count) ==
    IF ~ULess(count, r.packaged_descriptor_len) THEN 0 ELSE r.packaged_info_len

PackagedWriter_to_memory_ok(w, checked) ==
    LET r == PackagedWriter_to_memory_groups(w, checked)
    IN  /\ w.ok
        /\ \A h \in DOMAIN w.file_lookup.map :
             TableMaker_has_cell(w.paths, w.file_lookup.map[h])
        /\ \A c \in Range(w.paths) : Path_write_ok(w, w.heap[c], checked)
        /\ \A c \in Range(w.links) : Link_write_ok(w, w.heap[c])
        /\ \A h \in DOMAIN w.package_lookup :
             TableMaker_has_cell(w.packages, w.package_lookup[h])
        /\ \A c \in Range(w.packages) : Package_write_ok(w, w.heap[c])
        /\ r.ok
        /\ \A c \in Range(w.groups) : Group_write_ok(w, w.heap[c])
        /\ PackagedWriter_to_memory_versions_ok(w, r, checked)
        /\ \A c \in Range(w.child_packages) : ChildPackage_write_ok(w, w.heap[c])
        /\ \A c \in Range(w.infos) : Info_write_ok(w, w.heap[c])
        /\ \A i \in DOMAIN w.descriptors :
             Descriptor_write_ok(w, w.heap[w.descriptors[i]],
                                 PackagedWriter_info_offset(r, i - 1), checked)
        /\ \A k \in DOMAIN w.patches :
             /\ Patch_write_header_ok(w, w.heap[w.patches[k]], k - 1, checked)
             /\ Patch_write_body_ok(w, w.heap[w.patches[k]])

PackagedWriter_to_memory(w, checked) ==
    LET r == PackagedWriter_to_memory_groups(w, checked)
        table(t, Write(_)) == [i \in DOMAIN w[t] |-> Write(w.heap[w[t][i]])]
    IN  [path_lookup_count |-> BucketMap_len(w.file_lookup),
         path_bucket_count |-> w.file_lookup.count,
         path_buckets |-> BucketMap_buckets(w.file_lookup),
         path_keys |-> BucketMap_keys(w.file_lookup,
                           LAMBDA c : TableMaker_get_index(w.paths, c)),
         paths |-> table("paths", LAMBDA p : Path_write(w, p)),
         links |-> table("links", LAMBDA l : Link_write(w, l)),
         package_keys |-> Keys_write(w.package_lookup, w.packages),
         packages |-> table("packages", LAMBDA p : Package_write(w, p)),
         groups |-> table("groups", LAMBDA g : Group_write(w, g)),
         child_packages |-> table("child_packages", LAMBDA c : ChildPackage_write(w, c)),
         infos |-> table("infos", LAMBDA i : Info_write(w, i)),
         descriptors |->
             [i \in DOMAIN w.descriptors |->
                 Descriptor_write(w, w.heap[w.descriptors[i]],
                                  PackagedWriter_info_offset(r, i - 1))],
         metadatas |-> table("metadatas", LAMBDA m : Metadata_write(m)),
         patches |-> [k \in DOMAIN w.patches |->
                         Patch_write_header(w, w.heap[w.patches[k]], k - 1)],
         bodies |-> table("patches", LAMBDA p : Patch_write_body(w, p))]

\* ToMemoryResults as to_memory returns it: the counters of the loop over
\* the groups and the four differences taken after it.
PackagedWriter_to_memory_results(w, checked) ==
    LET r == PackagedWriter_to_memory_groups(w, checked)
    IN  [packaged_info_len |-> r.packaged_info_len,
         group_info_len |-> r.group_info_len,
         version_info_len |-> Len(w.infos) - r.group_info_len - r.packaged_info_len,
         packaged_descriptor_len |-> r.packaged_descriptor_len,
         group_descriptor_len |-> r.group_descriptor_len,
         version_descriptor_len |->
             Len(w.descriptors) - r.group_descriptor_len - r.packaged_descriptor_len,
         packaged_data_len |-> r.packaged_data_len,
         group_data_len |-> r.group_data_len,
         version_data_len |->
             Len(w.metadatas) - r.group_data_len - r.packaged_data_len,
         metadata_group_len |-> r.metadata_group_len,
         info_group_len |-> r.info_group_len,
         version_group_len |->
             Len(w.groups) - r.info_group_len - r.metadata_group_len]

\* The counters of the PackagedFsHeader as Archive::write_tables writes
\* them from the writer's tables and from ToMemoryResults.
PackagedFsHeader_write(w, write_output) ==
    [path_count |-> Len(w.paths),
     link_count |-> Len(w.links),
     package_count |-> Len(w.packages),
     metadata_group_count |-> write_output.metadata_group_len,
     child_package_count |-> Len(w.child_packages),
     package_info_count |-> write_output.packaged_info_len,
     package_descriptor_count |-> write_output.packaged_descriptor_len,
     package_metadata_count |-> write_output.packaged_data_len,
     info_group_count |-> write_output.info_group_len,
     group_info_count |-> write_output.group_info_len,
     version_group_count |-> write_output.version_group_len,
     versioned_file_count |-> Len(w.versioned_files),
     version_info_count |-> write_output.version_info_len,
     version_descriptor_count |-> write_output.version_descriptor_len,
     version_metadata_count |-> write_output.version_data_len]

\* The lengths the reader derives from the header it has read.
PackagedFsHeader_read(raw) ==
    [path_count |-> raw.path_count,
     link_count |-> raw.link_count,
     package_count |-> raw.package_count,
     child_package_count |-> raw.child_package_count,
     versioned_file_count |-> raw.versioned_file_count,
     group_count |->
         raw.metadata_group_count + raw.info_group_count + raw.version_group_count,
     info_count |->
         raw.package_info_count + raw.group_info_count + raw.version_info_count,
     descriptor_count |->
         raw.package_descriptor_count + raw.group_info_count
             + raw.version_descriptor_count,
     metadata_count |->
         raw.package_metadata_count + raw.group_info_count
             + raw.version_metadata_count]

(***************************************************************************)
(* Table images the packaged engine is loaded from.  An image follows the  *)
(* layout of the format: the groups table holds every package's groups,    *)
(* then one info-group, then one version-group per patch; infos,           *)
(* descriptors and metadatas are laid out in the same three parts.         *)
(* A package is given by a code: 0 plain, 1 localized, 2 regional, 3 both  *)
(* flags set.  cfg = [shape, n0, ig, np, f, e, v]: the package codes, the  *)
(* number of infos of the first package (every other package has one),     *)
(* the number of infos of the info-group (0: no info-group), the number of *)
(* patches, the files per patch, how many of a patch's infos lie outside   *)
(* its version-group, and a variation of single fields.                    *)
(***************************************************************************)
RangeCount(code) == IF code \in {1, 3} THEN 15 ELSE IF code = 2 THEN 6 ELSE 1

PackageFlags(code) ==
    (IF code \in {1, 3} THEN {24} ELSE {}) \cup (IF code \in {2, 3} THEN {25} ELSE {})

InfoFlags(code) ==
    {4} \cup (IF code \in {1, 3} THEN {15} ELSE {})
        \cup (IF code \in {2, 3} THEN {16} ELSE {})

PathBucketCount == 2

Image_of(cfg) ==
    LET P == Len(cfg.shape)
        gc == [i \in 1..P |-> RangeCount(cfg.shape[i])]
        n == [i \in 1..P |-> IF i = 1 THEN cfg.n0 ELSE 1]
        dn == [i \in 1..P |-> n[i] * gc[i]]
        N0 == SumSeq(n)
        D0 == SumSeq(dn)
        G0 == SumSeq(gc)
        hasIG == IF cfg.ig > 0 THEN 1 ELSE 0
        NV == cfg.np * cfg.f
        \* the number of paths: one per package info, and one for the infos
        \* of the groups where no package has an info
        PN == IF cfg.v = "path" THEN 1 ELSE N0
        \* the package and the position inside it of package info j (0-based)
        pkgOf(j) == CHOOSE i \in 1..P : Prefix(n, i) <= j /\ j < Prefix(n, i) + n[i]
        \* the package, info and position of package descriptor x (0-based)
        dpkg(x) == CHOOSE i \in 1..P : Prefix(dn, i) <= x /\ x < Prefix(dn, i) + dn[i]
        \* the package and group of package group g (0-based)
        gpkg(g) == CHOOSE i \in 1..P : Prefix(gc, i) <= g /\ g < Prefix(gc, i) + gc[i]
        paths ==
            [j \in 1..PN |->
                [path |-> HashKey_new(10 + j, IF j = 1 /\ cfg.v = "skip" THEN N0 ELSE j - 1),
                 ext |-> HashKey_new(3,
                            IF j = 1 /\ cfg.v = "vf0" THEN 0
                            ELSE IF j = 1 /\ cfg.v = "vf1" THEN 1
                            ELSE INVALID_INDEX),
                 parent |-> 1, file_name |-> 10 + j]]
        links ==
            [j \in 1..(N0 + cfg.ig + NV) |->
                [owner |-> IF j <= N0 THEN pkgOf(j - 1) - 1
                           ELSE IF j <= N0 + cfg.ig THEN G0
                           ELSE G0 + hasIG + ((j - 1 - N0 - cfg.ig) \div cfg.f),
                 info |-> j - 1]]
        packages ==
            [i \in 1..P |->
                [path |-> HashKey_new(100 + i, Prefix(gc, i)),
                 info_start |-> Prefix(n, i), info_count |-> n[i],
                 child_package_start |-> 0,
                 child_package_count |-> IF i = 1 /\ P > 1 THEN 1 ELSE 0,
                 flags |-> PackageFlags(cfg.shape[i])]]
        groups ==
            [g \in 1..(G0 + hasIG + cfg.np) |->
                IF g <= G0
                THEN LET i == gpkg(g - 1)
                         d == g - 1 - Prefix(gc, i)
                     IN  [range_start |-> Prefix(dn, i) + d * n[i],
                          range_count |-> n[i],
                          sub_package |-> IF g = 1 /\ cfg.v = "sub" THEN 1
                                          ELSE IF g = 1 /\ cfg.v = "subg" THEN G0
                                          ELSE INVALID_INDEX]
                ELSE IF g <= G0 + hasIG
                THEN [range_start |-> N0, range_count |-> cfg.ig, sub_package |-> G0]
                ELSE [range_start |-> N0 + cfg.ig + (g - 1 - G0 - hasIG) * cfg.f,
                      range_count |-> cfg.f - cfg.e, sub_package |-> 0]]
        child_packages ==
            IF P > 1 THEN <<HashKey_new(100 + P, P - 1)>> ELSE <<>>
        infos ==
            [j \in 1..(N0 + cfg.ig + NV) |->
                IF j <= N0
                THEN LET i == pkgOf(j - 1)
                     IN  [path |-> j - 1,
                          link |-> IF j = 1 /\ cfg.v = "skip" THEN N0 ELSE j - 1,
                          descriptor_index |->
                              Prefix(dn, i) + (j - 1 - Prefix(n, i)) * gc[i],
                          flags |-> InfoFlags(cfg.shape[i])]
                ELSE [path |-> 0, link |-> j - 1,
                      descriptor_index |-> D0 + (j - 1 - N0),
                      flags |-> {4}]]
        descriptors ==
            [x \in 1..(D0 + cfg.ig + NV) |->
                IF x <= D0
                THEN LET i == dpkg(x - 1)
                         a == (x - 1 - Prefix(dn, i)) \div gc[i]
                         d == (x - 1 - Prefix(dn, i)) % gc[i]
                     IN  [group |-> Prefix(gc, i) + d,
                          metadata |-> IF x = 1 /\ cfg.v = "nometa" THEN INVALID_INDEX
                                       ELSE Prefix(dn, i) + d * n[i] + a,
                          load_args |->
                              IF x = 1 /\ cfg.v \in {"skip", "skipown"}
                              THEN [tag |-> 3, payload |-> 0]
                              ELSE IF x = 1 /\ cfg.v = "unknown"
                              THEN [tag |-> 5, payload |-> 0]
                              ELSE IF x = 1 /\ cfg.v = "sbo"
                              THEN [tag |-> 9, payload |-> 0]
                              ELSE IF x = 1 /\ cfg.v = "region"
                              THEN [tag |-> 16, payload |-> 2]
                              ELSE [tag |-> 0, payload |-> Prefix(n, i) + a]]
                ELSE IF x <= D0 + cfg.ig
                THEN [group |-> G0, metadata |-> x - 1,
                      load_args |-> [tag |-> 0, payload |-> N0 + (x - 1 - D0)]]
                ELSE [group |-> G0 + hasIG + ((x - 1 - D0 - cfg.ig) \div cfg.f),
                      metadata |-> IF x = D0 + cfg.ig + 2 /\ cfg.v = "vnometa"
                                   THEN INVALID_INDEX ELSE x - 1,
                      load_args |-> [tag |-> 1,
                                     payload |-> (x - 1 - D0 - cfg.ig) \div cfg.f]]]
        patches ==
            [k \in 1..cfg.np |->
                [file_count |-> cfg.f, group |-> G0 + hasIG,
                 file_start |-> (k - 1) * cfg.f,
                 lookup_size_in_bytes |-> 8 * (cfg.f + PATCH_BUCKETS + 1),
                 info_count |-> cfg.f, descriptor_count |-> cfg.f,
                 num_changed_this_patch |-> cfg.f - cfg.e]]
        bodies ==
            [k \in 1..cfg.np |->
                [files |->
                    [j \in 1..cfg.f |->
                        [path |-> HashKey_new(
                                    IF cfg.v = "dup" THEN 11 ELSE 20 + (k - 1) * cfg.f + j,
                                    IF cfg.v = "unchanged" /\ j > cfg.f - cfg.e
                                    THEN 1 ELSE 0),
                         info |-> N0 + cfg.ig + (k - 1) * cfg.f + j - 1,
                         group_index_start |-> G0 + hasIG + k - 1,
                         link |-> N0 + cfg.ig + (k - 1) * cfg.f + j - 1]],
                 bucket_count |-> PATCH_BUCKETS,
                 lookup_count |-> IF cfg.v = "dup" THEN 1 ELSE cfg.f,
                 keys |-> BucketMap_keys(
                              Patch_lookup([j \in 1..cfg.f |->
                                  IF cfg.v = "dup" THEN 11 ELSE 20 + (k - 1) * cfg.f + j]),
                              LAMBDA index : index)]]
    IN  [path_lookup_count |-> PN,
         path_bucket_count |-> PathBucketCount,
         path_buckets |-> BucketMap_buckets(
                              [count |-> PathBucketCount,
                               map |-> [h \in {10 + j : j \in 1..PN} |-> h - 11]]),
         path_keys |-> BucketMap_keys(
                           [count |-> PathBucketCount,
                            map |-> [h \in {10 + j : j \in 1..PN} |-> h - 11]],
                           LAMBDA index : index),
         paths |-> paths, links |-> links,
         package_keys |-> [i \in 1..P |-> HashKey_new(100 + i, i - 1)],
         packages |-> packages,
         groups |-> groups, child_packages |-> child_packages,
         infos |-> infos, descriptors |-> descriptors,
         metadatas |-> [x \in 1..(D0 + cfg.ig + NV) |-> x],
         patches |-> patches, bodies |-> bodies]

PackageShapes == {<<0>>, <<2, 0>>, <<1, 0>>, <<3>>}

PatchConfigs ==
    {[np |-> 0, f |-> 1, e |-> 0]}
    \cup {pc \in [np : 1..MaxPatches, f : 1..MaxPatchFiles, e : 0..1] : pc.e < pc.f}

\* Every layout with the fields in their usual form, the variations of the
\* single-package layouts that have patches and a package info, and the
\* layouts whose first package descriptor carries one of the other load
\* arguments: PackageSkip to the first info of the info-group, with the
\* info and its path on that info's link ("skip") or on a link of their
\* own ("skipown"); Unknown; SharedButOwned; UnsupportedRegion.  The last
\* are the layouts without a package info whose infos table begins with
\* the info of the info-group, which has a path ("path"), and the layouts
\* of two packages whose first group has the second package ("sub") or
\* the info-group ("subg") as its sub-package, and the layouts in which
\* the files of a patch that lie outside its version-group are marked as
\* not changed by the patch ("unchanged"), and the layouts in which the
\* second descriptor of the first patch has no metadata ("vnometa").
ImageConfigs ==
    {[shape |-> sh, n0 |-> n0, ig |-> ig, np |-> pc.np, f |-> pc.f, e |-> pc.e,
      v |-> "plain"] :
        sh \in PackageShapes, n0 \in 0..MaxPkgInfos, ig \in 0..1, pc \in PatchConfigs}
    \cup
    {[shape |-> <<0>>, n0 |-> n0, ig |-> ig, np |-> pc.np, f |-> pc.f, e |-> pc.e,
      v |-> v] :
        n0 \in 1..MaxPkgInfos, ig \in 0..1, pc \in {c \in PatchConfigs : c.np > 0},
        v \in {"vf0", "vf1", "dup", "nometa"}}
    \cup
    {[shape |-> <<0>>, n0 |-> n0, ig |-> 1, np |-> pc.np, f |-> pc.f, e |-> pc.e,
      v |-> v] :
        n0 \in 1..MaxPkgInfos, pc \in {c \in PatchConfigs : c.f = 1},
        v \in {"skip", "skipown", "unknown", "sbo", "region"}}
    \cup
    {[shape |-> <<0>>, n0 |-> 0, ig |-> 1, np |-> pc.np, f |-> pc.f, e |-> pc.e,
      v |-> "path"] :
        pc \in {c \in PatchConfigs : c.f = 1}}
    \cup
    {[shape |-> <<2, 0>>, n0 |-> n0, ig |-> 1, np |-> pc.np, f |-> pc.f, e |-> pc.e,
      v |-> v] :
        n0 \in 1..MaxPkgInfos, pc \in {c \in PatchConfigs : c.f = 1 /\ c.np <= 1},
        v \in {"sub", "subg"}}
    \cup
    {[shape |-> <<0>>, n0 |-> n0, ig |-> ig, np |-> pc.np, f |-> pc.f, e |-> pc.e,
      v |-> "unchanged"] :
        n0 \in 1..MaxPkgInfos, ig \in 0..1, pc \in {c \in PatchConfigs : c.e > 0}}
    \cup
    {[shape |-> <<0>>, n0 |-> n0, ig |-> ig, np |-> pc.np, f |-> pc.f, e |-> pc.e,
      v |-> "vnometa"] :
        n0 \in 1..MaxPkgInfos, ig \in 0..1, pc \in {c \in PatchConfigs : c.f > 1}}

PackagedImages == {Image_of(cfg) : cfg \in ImageConfigs}

NoOp == [op |-> "none", ok |-> TRUE]

\* The parts that are exercised on their own are at rest while an engine
\* runs, and the engine is at rest while one of them runs.
Idle == [phase |-> "idle"]
PartsIdle == ar = Idle /\ hk = Idle /\ tm = Idle /\ tc = Idle
EngineIdle ==
    /\ engine = "none" /\ status = "idle" /\ disk = <<>> /\ out = <<>>
    /\ st = EmptyStream /\ se = EmptySearch /\ pk = EmptyPackaged
    /\ adds = 0 /\ gen = 0 /\ last = NoOp

InitStream ==
    /\ engine = "stream"
    /\ status = "disk"
    /\ disk \in StreamImages
    /\ out = disk
    /\ st = EmptyStream
    /\ se = EmptySearch
    /\ pk = EmptyPackaged
    /\ adds = 0
    /\ gen = 0
    /\ last = NoOp
    /\ PartsIdle

InitSearch ==
    /\ engine = "search"
    /\ status = "disk"
    /\ disk \in SearchImages
    /\ out = disk
    /\ st = EmptyStream
    /\ se = EmptySearch
    /\ pk = EmptyPackaged
    /\ adds = 0
    /\ gen = 0
    /\ last = NoOp
    /\ PartsIdle

InitPackaged ==
    /\ engine = "packaged"
    /\ status = "disk"
    /\ disk \in PackagedImages
    /\ out = disk
    /\ st = EmptyStream
    /\ se = EmptySearch
    /\ pk = EmptyPackaged
    /\ adds = 0
    /\ gen = 0
    /\ last = NoOp
    /\ PartsIdle

StreamRead ==
    /\ engine = "stream"
    /\ status = "disk"
    /\ IF StreamEngine_read_ok(disk)
       THEN /\ st' = StreamEngine_read(disk)
            /\ status' = "parsed"
            /\ last' = [op |-> "read", ok |-> TRUE]
       ELSE /\ st' = st
            /\ status' = "aborted"
            /\ last' = [op |-> "read", ok |-> FALSE]
    /\ UNCHANGED <<engine, disk, out, se, pk, adds, gen>>
    /\ UNCHANGED partvars

StreamResolve ==
    /\ engine = "stream"
    /\ status \in {"parsed", "resolved"}
    /\ IF StreamEngine_resolve_ok(st)
       THEN /\ st' = StreamEngine_resolve(st)
            /\ status' = "resolved"
            /\ last' = [op |-> "resolve", ok |-> TRUE]
       ELSE /\ st' = st
            /\ status' = "aborted"
            /\ last' = [op |-> "resolve", ok |-> FALSE]
    /\ UNCHANGED <<engine, disk, out, se, pk, adds, gen>>
    /\ UNCHANGED partvars

StreamReorganize ==
    /\ engine = "stream"
    /\ status \in {"parsed", "resolved"}
    /\ LET w == StreamWriter_from_engine(st)
       IN  IF w.ok
           THEN /\ st' = StreamEngine_reorganize(st)
                /\ status' = status
                /\ last' = [op |-> "reorganize", ok |-> TRUE]
           ELSE /\ st' = st
                /\ status' = "aborted"
                /\ last' = [op |-> "reorganize", ok |-> FALSE]
    /\ UNCHANGED <<engine, disk, out, se, pk, adds, gen>>
    /\ UNCHANGED partvars

StreamWrite ==
    /\ engine = "stream"
    /\ status \in {"parsed", "resolved"}
    /\ LET w == StreamWriter_from_engine(st)
       IN  IF StreamWriter_to_memory_ok(w)
           THEN /\ st' = StreamEngine_reorganize(st)
                /\ out' = StreamWriter_to_memory(w)
                /\ status' = "written"
                /\ last' = [op |-> "write", ok |-> TRUE]
           ELSE /\ st' = st
                /\ out' = out
                /\ status' = "aborted"
                /\ last' = [op |-> "write", ok |-> FALSE]
    /\ UNCHANGED <<engine, disk, se, pk, adds, gen>>
    /\ UNCHANGED partvars

SearchRead ==
    /\ engine = "search"
    /\ status = "disk"
    /\ se' = SearchEngine_read(disk)
    /\ status' = "parsed"
    /\ last' = [op |-> "read", ok |-> TRUE]
    /\ UNCHANGED <<engine, disk, out, st, pk, adds, gen>>
    /\ UNCHANGED partvars

SearchResolve ==
    /\ engine = "search"
    /\ status \in {"parsed", "resolved"}
    /\ IF ~SearchEngine_resolve_ok(se)
       THEN /\ se' = se
            /\ status' = "aborted"
            /\ last' = [op |-> "resolve", ok |-> FALSE]
       ELSE IF ~SearchEngine_resolve_ends(se)
       THEN /\ se' = se
            /\ status' = "diverged"
            /\ last' = [op |-> "resolve", ok |-> FALSE]
       ELSE /\ se' = SearchEngine_resolve(se)
            /\ status' = "resolved"
            /\ last' = [op |-> "resolve", ok |-> TRUE]
    /\ UNCHANGED <<engine, disk, out, st, pk, adds, gen>>
    /\ UNCHANGED partvars

\* The caller empties a folder's child list through get_folder_mut and
\* TableReferenceSet::clear.
SearchClearChildren ==
    /\ engine = "search"
    /\ status = "resolved"
    /\ \E c \in Range(se.folders) :
         /\ se.heap[c].children.cells # <<>>
         /\ se' = [se EXCEPT !.heap[c].children = SetResolved(<<>>)]
    /\ last' = [op |-> "clear", ok |-> TRUE]
    /\ UNCHANGED <<engine, status, disk, out, st, pk, adds, gen>>
    /\ UNCHANGED partvars

SearchAddFile ==
    /\ engine = "search"
    /\ status \in {"parsed", "resolved"}
    /\ adds < MaxAdds
    /\ \E file \in SearchFileStrings :
         LET r == SearchEngine_add_file(se, file)
         IN  /\ se' = r.e
             /\ status' = IF r.ok THEN status ELSE "aborted"
             /\ last' = [op |-> "add_file", ok |-> r.ok, file |-> file]
    /\ adds' = adds + 1
    /\ UNCHANGED <<engine, disk, out, st, pk, gen>>
    /\ UNCHANGED partvars

SearchReorganize ==
    /\ engine = "search"
    /\ status \in {"parsed", "resolved"}
    /\ LET w == SearchWriter_from_engine(se)
       IN  IF w.ok
           THEN /\ se' = SearchEngine_reorganize(se)
                /\ status' = status
                /\ last' = [op |-> "reorganize", ok |-> TRUE]
           ELSE /\ se' = se
                /\ status' = "aborted"
                /\ last' = [op |-> "reorganize", ok |-> FALSE]
    /\ UNCHANGED <<engine, disk, out, st, pk, adds, gen>>
    /\ UNCHANGED partvars

SearchWrite ==
    /\ engine = "search"
    /\ status \in {"parsed", "resolved"}
    /\ LET w == SearchWriter_from_engine(se)
       IN  IF SearchWriter_to_memory_ok(w)
           THEN /\ se' = SearchEngine_reorganize(se)
                /\ out' = SearchWriter_to_memory(w)
                /\ status' = "written"
                /\ last' = [op |-> "write", ok |-> TRUE]
           ELSE /\ se' = se
                /\ out' = out
                /\ status' = "aborted"
                /\ last' = [op |-> "write", ok |-> FALSE]
    /\ UNCHANGED <<engine, disk, st, pk, adds, gen>>
    /\ UNCHANGED partvars

PackagedRead ==
    /\ engine = "packaged"
    /\ status = "disk"
    /\ IF PackagedEngine_read_ok(disk)
       THEN /\ pk' = PackagedEngine_read(disk)
            /\ status' = "parsed"
            /\ last' = [op |-> "read", ok |-> TRUE]
       ELSE /\ pk' = pk
            /\ status' = "aborted"
            /\ last' = [op |-> "read", ok |-> FALSE]
    /\ UNCHANGED <<engine, disk, out, st, se, adds, gen>>
    /\ UNCHANGED partvars

PackagedResolve ==
    /\ engine = "packaged"
    /\ status \in {"parsed", "resolved"}
    /\ \E checked \in BOOLEAN :
         LET r == PackagedEngine_resolve(pk, checked)
         IN  IF r.ok
             THEN /\ pk' = r.e
                  /\ status' = "resolved"
                  /\ last' = [op |-> "resolve", ok |-> TRUE]
             ELSE /\ pk' = pk
                  /\ status' = "aborted"
                  /\ last' = [op |-> "resolve", ok |-> FALSE]
    /\ UNCHANGED <<engine, disk, out, st, se, adds, gen>>
    /\ UNCHANGED partvars

PackagedAddFile ==
    /\ engine = "packaged"
    /\ status \in {"parsed", "resolved"}
    /\ adds < MaxAdds
    /\ \E file \in FileStrings, package \in PackageHashes :
         LET r == PackagedEngine_add_file(pk, file, package)
         IN  /\ pk' = r.e
             /\ status' = IF r.ok THEN status ELSE "aborted"
             /\ last' = [op |-> "add_file", ok |-> r.ok, file |-> file,
                         package |-> package, info |-> r.info]
    /\ adds' = adds + 1
    /\ UNCHANGED <<engine, disk, out, st, se, gen>>
    /\ UNCHANGED partvars

PackagedReorganize ==
    /\ engine = "packaged"
    /\ status \in {"parsed", "resolved"}
    /\ LET w == PackagedWriter_from_engine(pk)
       IN  IF w.ok
           THEN /\ pk' = PackagedEngine_reorganize(pk)
                /\ status' = status
                /\ last' = [op |-> "reorganize", ok |-> TRUE]
           ELSE /\ pk' = pk
                /\ status' = "aborted"
                /\ last' = [op |-> "reorganize", ok |-> FALSE]
    /\ UNCHANGED <<engine, disk, out, st, se, adds, gen>>
    /\ UNCHANGED partvars

PackagedWrite ==
    /\ engine = "packaged"
    /\ status \in {"parsed", "resolved"}
    /\ \E checked \in BOOLEAN :
         LET w == PackagedWriter_from_engine(pk)
         IN  IF PackagedWriter_to_memory_ok(w, checked)
             THEN /\ pk' = PackagedEngine_reorganize(pk)
                  /\ out' = PackagedWriter_to_memory(w, checked)
                  /\ status' = "written"
                  /\ last' = [op |-> "write", ok |-> TRUE]
             ELSE /\ pk' = pk
                  /\ out' = out
                  /\ status' = "aborted"
                  /\ last' = [op |-> "write", ok |-> FALSE]
    /\ UNCHANGED <<engine, disk, st, se, adds, gen>>
    /\ UNCHANGED partvars

\* A later run of the program opens the image the last run wrote.
Reopen ==
    /\ status = "written"
    /\ gen < MaxGen
    /\ disk' = out
    /\ status' = "disk"
    /\ st' = EmptyStream
    /\ se' = EmptySearch
    /\ pk' = EmptyPackaged
    /\ gen' = gen + 1
    /\ last' = [op |-> "reopen", ok |-> TRUE]
    /\ UNCHANGED <<engine, out, adds>>
    /\ UNCHANGED partvars

Init == InitStream \/ InitSearch \/ InitPackaged

Next ==
    \/ StreamRead
    \/ StreamResolve
    \/ StreamReorganize
    \/ StreamWrite
    \/ SearchRead
    \/ SearchResolve
    \/ SearchClearChildren
    \/ SearchAddFile
    \/ SearchReorganize
    \/ SearchWrite
    \/ PackagedRead
    \/ PackagedResolve
    \/ PackagedAddFile
    \/ PackagedReorganize
    \/ PackagedWrite
    \/ Reopen

Spec == Init /\ [][Next]_vars

(***************************************************************************)
(* The order of the tables of the packaged engine                          *)
(***************************************************************************)
\* 0 for a metadata-group, 1 for an info-group that is not a version-group,
\* 2 for a version-group.
GroupRank(e, g) ==
    IF is_metadata_group(e.heap[g]) THEN 0
    ELSE IF is_version_group(e.heap[g]) THEN 2
    ELSE 1

\* 0 for an info a package lists, 1 for an info of an info-group that is
\* not a version-group, 2 for the others: the infos of the patches.
InfoRank(e, i) ==
    IF \E p \in Range(e.packages) : i \in Range(e.heap[p].infos.cells) THEN 0
    ELSE IF \E g \in Range(e.groups) :
               GroupRank(e, g) = 1 /\ i \in Range(e.heap[g].files.cells) THEN 1
    ELSE 2

\* The least rank of an info that lists the descriptor.
DescriptorRank(e, d) ==
    LET ranks == {InfoRank(e, i) : i \in {j \in Range(e.infos) :
                                            d \in Range(e.heap[j].descriptors.cells)}}
    IN  IF ranks = {} THEN 2 ELSE CHOOSE r \in ranks : \A q \in ranks : r <= q

\* 0 for a metadata a metadata-group lists, else the least rank of a
\* descriptor that refers to it.
MetadataRank(e, m) ==
    IF \E g \in Range(e.groups) :
          GroupRank(e, g) = 0 /\ m \in Range(e.heap[g].files.cells) THEN 0
    ELSE LET ranks == {DescriptorRank(e, d) : d \in {x \in Range(e.descriptors) :
                                                     e.heap[x].metadata.v = m}}
         IN  IF ranks = {} THEN 2 ELSE CHOOSE r \in ranks : \A q \in ranks : r <= q

Ordered(table, Rank(_)) ==
    \A i, j \in DOMAIN table : i < j => Rank(table[i]) <= Rank(table[j])

Reorganized ==
    engine = "packaged" /\ last.op = "reorganize" /\ last.ok

CellIn(r, table) == r.t \notin {"Unresolved", "None"} => r.v \in Range(table)

\* A list reference that holds cells holds cells of `table`.
CellsIn(r, table) == r.t # "Unresolved" => Range(r.cells) \subseteq Range(table)

StreamReferencesInTables(e) ==
    /\ \A c \in Range(e.folders) : CellsIn(e.heap[c].paths, e.paths)
    /\ \A c \in Range(e.paths) : CellsIn(e.heap[c].links, e.links)
    /\ \A c \in Range(e.links) : CellIn(e.heap[c].metadata, e.metadatas)

SearchReferencesInTables(e) ==
    /\ \A c \in Range(e.folders) : CellsIn(e.heap[c].children, e.paths)
    /\ \A c \in Range(e.paths) :
         /\ CellIn(e.heap[c].folder, e.folders)
         /\ CellIn(e.heap[c].next, e.paths)

LoadArgumentsInTables(e, a) ==
    IF a.tag \in {"Unowned", "SharedButOwned"} THEN CellIn(a.r, e.links)
    ELSE IF a.tag = "Owned" THEN CellIn(a.r, e.patches)
    ELSE IF a.tag = "PackageSkip" THEN CellIn(a.r, e.infos)
    ELSE TRUE

OwnerInTables(e, r) ==
    /\ r.t = "Package" => r.v \in Range(e.packages)
    /\ r.t = "Group" => r.v \in Range(e.groups)

PackagedReferencesInTables(e) ==
    /\ \A c \in Range(e.packages) :
         /\ CellsIn(e.heap[c].groups, e.groups)
         /\ CellsIn(e.heap[c].infos, e.infos)
         /\ CellsIn(e.heap[c].child_packages, e.child_packages)
    /\ \A c \in Range(e.child_packages) : CellIn(e.heap[c].package, e.packages)
    /\ \A c \in Range(e.groups) :
         /\ OwnerInTables(e, e.heap[c].sub_package)
         /\ is_info_group(e.heap[c]) => CellsIn(e.heap[c].files, e.infos)
         /\ is_metadata_group(e.heap[c]) => CellsIn(e.heap[c].files, e.metadatas)
    /\ \A c \in Range(e.paths) :
         /\ CellIn(e.heap[c].link, e.links)
         /\ CellIn(e.heap[c].versioned_file, e.versioned_files)
    /\ \A c \in Range(e.links) :
         /\ OwnerInTables(e, e.heap[c].owner)
         /\ CellIn(e.heap[c].info, e.infos)
    /\ \A c \in Range(e.infos) :
         /\ CellIn(e.heap[c].path, e.paths)
         /\ CellIn(e.heap[c].link, e.links)
         /\ CellsIn(e.heap[c].descriptors, e.descriptors)
    /\ \A c \in Range(e.descriptors) :
         /\ CellIn(e.heap[c].group, e.groups)
         /\ CellIn(e.heap[c].metadata, e.metadatas)
         /\ LoadArgumentsInTables(e, e.heap[c].load_args)
    /\ \A c \in Range(e.patches) :
         /\ CellIn(e.heap[c].group, e.groups)
         /\ CellsIn(e.heap[c].versioned_files, e.versioned_files)
         /\ CellsIn(e.heap[c].infos, e.infos)
    /\ \A c \in Range(e.versioned_files) :
         /\ CellIn(e.heap[c].info, e.infos)
         /\ CellIn(e.heap[c].link, e.links)

\* The engine has been parsed and no operation on it has aborted.
Usable == status \in {"parsed", "resolved", "written"}

\* C2: in every state reached by parse, resolve, add_file and reorganize,
\* every resolved reference held by a record of an engine's tables is an
\* element of that engine's top-level table of the referenced type; this
\* includes the cells add_file created.
C2_ReferencesInTables ==
    Usable =>
        /\ engine = "stream" => StreamReferencesInTables(st)
        /\ engine = "search" => SearchReferencesInTables(se)
        /\ engine = "packaged" => PackagedReferencesInTables(pk)

\* The same statement for the engines add_file has not been called on.
C2_BeforeAddFile == adds = 0 => C2_ReferencesInTables

\* The same statement for the states right after a reorganize.
C2_AfterReorganize == last.op = "reorganize" /\ last.ok => C2_ReferencesInTables

(***************************************************************************)
(* resolve on an engine that is already resolved                           *)
(***************************************************************************)
\* A step that is a call of resolve on an engine whose references are all
\* resolved.
SecondResolve == status = "resolved" /\ last'.op = "resolve"

\* C3: resolve called on an already resolved engine completes without
\* aborting and leaves every record of the engine as it was, so that every
\* reference designates the same cells and every group keeps its
\* classification.
C3_ResolveIdempotent ==
    [][SecondResolve => last'.ok /\ status' = "resolved"
                        /\ st' = st /\ se' = se /\ pk' = pk]_vars

\* The same statement for the engines add_file has not been called on.
C3_BeforeAddFile ==
    [][SecondResolve /\ adds = 0
           => last'.ok /\ status' = "resolved" /\ st' = st /\ se' = se /\ pk' = pk]_vars

(***************************************************************************)
(* PackagedEngine::add_file as its caller sees it                          *)
(***************************************************************************)
\* The state add_file returned in: last holds the arguments of the call and
\* the cell it returned.
Added == engine = "packaged" /\ last.op = "add_file" /\ last.ok

\* C4: after add_file(P, K) has returned, has_file(P) is true, the path
\* get_file(P) finds has the hash of P's extension, the Info returned is
\* the last of package K's infos, exactly one of is_graphics_archive and
\* is_regular_file is set, and is_graphics_archive is set iff the extension
\* is one of nutexb, arc, bntx, eff.
C4_AddFileSurface ==
    Added =>
        LET P == last.file
            info == pk.heap[last.info]
            package == pk.heap[pk.package_lookup[last.package]]
        IN  /\ has_file(pk, P.full_path)
            /\ pk.heap[pk.file_lookup.map[P.full_path]].extension = P.extension.v
            /\ Cells_ok(package.infos)
            /\ package.infos.cells # <<>>
            /\ package.infos.cells[Len(package.infos.cells)] = last.info
            /\ info.is_graphics_archive # info.is_regular_file
            /\ info.is_graphics_archive
                   <=> P.extension.v \in {EXT_NUTEXB, EXT_ARC, EXT_BNTX, EXT_EFF}

\* add_file has returned for a path with the extension nutexb.
C4_Witness ==
    /\ Added
    /\ last.file.extension = Component(EXT_NUTEXB)
    /\ pk.heap[last.info].is_graphics_archive

\* C5: add_file aborts when the hash of the path is in the file lookup or
\* the hash of the package is not in the package lookup, and it leaves the
\* file lookup, the infos of every package and the metadatas of every group
\* as they were.
C5_AddFileAborts ==
    [][/\ engine = "packaged"
       /\ adds' = adds + 1
       /\ \/ last'.file.full_path \in DOMAIN pk.file_lookup.map
          \/ last'.package \notin DOMAIN pk.package_lookup
       => /\ ~last'.ok
          /\ status' = "aborted"
          /\ pk'.file_lookup = pk.file_lookup
          /\ pk'.packages = pk.packages /\ pk'.groups = pk.groups
          /\ \A c \in Range(pk.packages) : pk'.heap[c].infos = pk.heap[c].infos
          /\ \A c \in Range(pk.groups) : pk'.heap[c].files = pk.heap[c].files]_vars

\* add_file has aborted on a path the file lookup already held.
C5_Witness ==
    /\ engine = "packaged" /\ status = "aborted"
    /\ last.op = "add_file" /\ ~last.ok
    /\ last.file.full_path \in DOMAIN pk.file_lookup.map
    /\ last.package \in DOMAIN pk.package_lookup

(***************************************************************************)
(* Path.versioned_file and the last patch                                  *)
(***************************************************************************)
\* The versioned files of the last patch of engine e.
LastPatchFiles(e) == e.heap[e.patches[Len(e.patches)]].versioned_files.cells

\* The paths of engine e that hold a versioned file, by table position.
VersionedPaths(e) ==
    {i \in DOMAIN e.paths : e.heap[e.paths[i]].versioned_file.t = "VersionedFile"}

\* The table position (0-based) of the versioned file of path i.
VersionedFileIndex(e, i) ==
    IndexOf(e.versioned_files, e.heap[e.paths[i]].versioned_file.v) - 1

\* Every versioned path of the resolved engine designates a file of the
\* last patch.
InLastPatch(e) ==
    \A i \in VersionedPaths(e) :
        /\ e.patches # <<>>
        /\ e.heap[e.paths[i]].versioned_file.v \in Range(LastPatchFiles(e))

\* The index written for path i of the engine e the image was written
\* from, and the file the reader finds for it.
WrittenRelative(e, image) ==
    \A i \in VersionedPaths(e) :
        /\ e.patches # <<>> /\ LastPatchFiles(e) # <<>>
        /\ image.paths[i].ext.index =
               VersionedFileIndex(e, i)
               - (IndexOf(e.versioned_files, LastPatchFiles(e)[1]) - 1)
        /\ image.paths[i].ext.index >= 0
        /\ image.paths[i].ext.index # INVALID_INDEX
        /\ \A checked \in BOOLEAN :
             LET r == PackagedEngine_resolve(PackagedEngine_read(image), checked)
             IN  /\ PackagedEngine_read_ok(image)
                 /\ r.ok
                 /\ i \in VersionedPaths(r.e)
                 /\ VersionedFileIndex(r.e, i) = VersionedFileIndex(e, i)

\* C6: after resolve every Path that holds a versioned file designates a
\* VersionedFile of the last patch; the index written for it is the final
\* index of that file minus the final index of the first file of the last
\* patch, it is not negative, and the reader resolves it to the file at the
\* same final index.
C6_VersionedFileRelative ==
    /\ engine = "packaged" /\ status = "resolved" => InLastPatch(pk)
    /\ engine = "packaged" /\ status = "written" => WrittenRelative(pk, out)

\* A path that holds a file of the last of two patches has been written.
C6_Witness ==
    /\ engine = "packaged" /\ status = "written"
    /\ Len(pk.patches) = 2
    /\ VersionedPaths(pk) # {}
    /\ \E i \in VersionedPaths(pk) : out.paths[i].ext.index = 1

(***************************************************************************)
(* The lookup of a patch                                                   *)
(***************************************************************************)
\* The header and the body written for patch k agree on the lookup.
PatchLookupAgrees(image, k) ==
    /\ image.bodies[k].bucket_count = 1024
    /\ image.bodies[k].lookup_count = image.patches[k].file_count
    /\ Len(image.bodies[k].keys) = image.bodies[k].lookup_count
    /\ image.patches[k].lookup_size_in_bytes = 8 * (image.patches[k].file_count + 1025)
    /\ image.patches[k].lookup_size_in_bytes = Patch_body_lookup_bytes(image.bodies[k])

\* The paths of the versioned files of patch k of engine e.
PatchPaths(e, k) ==
    [j \in DOMAIN e.heap[e.patches[k]].versioned_files.cells |->
        e.heap[e.heap[e.patches[k]].versioned_files.cells[j]].path]

\* No two versioned files of one patch have the same path.
DistinctPatchPaths(e) ==
    \A k \in DOMAIN e.patches :
        Cardinality(Range(PatchPaths(e, k))) = Len(PatchPaths(e, k))

\* C7: the body written for every patch holds a bucket map of 1024 buckets
\* whose number of keys is the file count of the header, and the lookup size
\* of the header, 8 * (file_count + 0x401), is the number of bytes the body
\* emits for the two count words, the bucket entries and the keys.
C7_PatchLookup ==
    engine = "packaged" /\ status = "written" =>
        \A k \in DOMAIN out.patches : PatchLookupAgrees(out, k)

\* The same for the engines whose patches list no path twice.
C7_DistinctPaths ==
    engine = "packaged" /\ status = "written" /\ DistinctPatchPaths(pk) =>
        \A k \in DOMAIN out.patches : PatchLookupAgrees(out, k)

\* A patch of two files with distinct paths has been written.
C7_DistinctPathsWitness ==
    /\ engine = "packaged" /\ status = "written" /\ DistinctPatchPaths(pk)
    /\ \E k \in DOMAIN out.patches : out.patches[k].file_count = 2

(***************************************************************************)
(* The invalid index                                                       *)
(***************************************************************************)
\* The fields of a packaged image that hold the invalid index are no
\* reference in the engine parsed from it, their resolve steps index no
\* table and leave them so, and they are no reference in the engine when
\* its resolve has completed.
PackagedSentinels(image) ==
    LET e == PackagedEngine_read(image)
    IN  /\ PackagedEngine_read_ok(image)
        /\ \A i \in DOMAIN image.paths :
             image.paths[i].ext.index = INVALID_INDEX =>
                 /\ e.heap[e.paths[i]].versioned_file = None
                 /\ PathVersionedFileReference_resolve_ok(
                        e.heap[e.paths[i]].versioned_file, <<>>, 0, TRUE)
                 /\ PathVersionedFileReference_resolve(
                        e.heap[e.paths[i]].versioned_file, <<>>, 0) = None
        /\ \A i \in DOMAIN image.descriptors :
             image.descriptors[i].metadata = INVALID_INDEX =>
                 /\ e.heap[e.descriptors[i]].metadata = None
                 /\ DescriptorMetadataReference_resolve_ok(
                        e.heap[e.descriptors[i]].metadata, <<>>)
                 /\ DescriptorMetadataReference_resolve(
                        e.heap[e.descriptors[i]].metadata, <<>>) = None
        /\ \A i \in DOMAIN image.groups :
             image.groups[i].sub_package = INVALID_INDEX =>
                 /\ e.heap[e.groups[i]].sub_package = None
                 /\ GroupSubPackageReference_resolve_ok(
                        e.heap[e.groups[i]].sub_package, <<>>, <<>>)
                 /\ GroupSubPackageReference_resolve(
                        e.heap[e.groups[i]].sub_package, <<>>, <<>>) = None
        /\ \A checked \in BOOLEAN :
             LET r == PackagedEngine_resolve(e, checked)
             IN  r.ok =>
                 /\ \A i \in DOMAIN image.paths :
                      image.paths[i].ext.index = INVALID_INDEX =>
                          r.e.heap[r.e.paths[i]].versioned_file = None
                 /\ \A i \in DOMAIN image.descriptors :
                      image.descriptors[i].metadata = INVALID_INDEX =>
                          r.e.heap[r.e.descriptors[i]].metadata = None
                 /\ \A i \in DOMAIN image.groups :
                      image.groups[i].sub_package = INVALID_INDEX =>
                          r.e.heap[r.e.groups[i]].sub_package = None

\* The next index of a search path that holds the invalid index is no
\* reference in the engine parsed from the image, and resolve leaves it so.
SearchPathSentinels(image) ==
    LET e == SearchEngine_read(image)
    IN  \A i \in DOMAIN image.paths :
            image.paths[i].path.index = INVALID_INDEX =>
                /\ e.heap[e.paths[i]].next = None
                /\ SearchPathNextReference_resolve_ok(e.heap[e.paths[i]].next, e.paths)
                /\ SearchPathNextReference_resolve(e.heap[e.paths[i]].next, e.paths) = None

\* The first-child index of a search folder that holds the invalid index
\* is resolved without indexing the paths, to no children.
SearchFolderSentinels(image) ==
    LET e == SearchEngine_read(image)
    IN  \A i \in DOMAIN image.folders :
            image.folders[i].first_child_index = INVALID_INDEX =>
                /\ TableLinkedReference_resolve_ok(
                       e.heap[e.folders[i]].children, e.heap, e.paths)
                /\ TableLinkedReference_resolve(
                       e.heap[e.folders[i]].children, e.heap, e.paths).cells = <<>>

\* C8: every index field a writer emits as 0x00FF_FFFF (Path.versioned_file,
\* Descriptor.metadata, Group.sub_package, SearchPath.next, the first child
\* of a SearchFolder without children) is no reference after the image is
\* parsed and resolved again, and is never used to index a table.
C8_SentinelIsNoReference ==
    /\ engine = "packaged" /\ status = "written" => PackagedSentinels(out)
    /\ engine = "search" /\ status = "written" =>
         SearchPathSentinels(out) /\ SearchFolderSentinels(out)

\* The same without the first child of a search folder.
C8_ExceptFirstChild ==
    /\ engine = "packaged" /\ status = "written" => PackagedSentinels(out)
    /\ engine = "search" /\ status = "written" => SearchPathSentinels(out)

\* Images that hold the invalid index in each of the other fields have been
\* written.
C8_PackagedWitness ==
    /\ engine = "packaged" /\ status = "written"
    /\ \E i \in DOMAIN out.paths : out.paths[i].ext.index = INVALID_INDEX
    /\ \E i \in DOMAIN out.descriptors : out.descriptors[i].metadata = INVALID_INDEX
    /\ \E i \in DOMAIN out.groups : out.groups[i].sub_package = INVALID_INDEX

C8_SearchWitness ==
    /\ engine = "search" /\ status = "written"
    /\ \E i \in DOMAIN out.paths : out.paths[i].path.index = INVALID_INDEX

(***************************************************************************)
(* The number of groups of a package and of descriptors of an info         *)
(***************************************************************************)
\* 15 for a localized record, 6 for a regional one that is not localized,
\* 1 for any other.
CardinalityRule(record) ==
    IF record.is_localized THEN 15 ELSE IF record.is_regional THEN 6 ELSE 1

\* The infos of engine e: those of its table and those its packages hold.
AllInfos(e) ==
    Range(e.infos)
    \cup UNION {Range(e.heap[p].infos.cells) : p \in Range(e.packages)}

\* C9: in a resolved packaged engine, also after add_file, every package
\* has 15 groups if it is localized, 6 if it is regional and not localized
\* and 1 otherwise, and every Info, parsed or created by add_file, has the
\* number of descriptors the same rule gives for its flags.
C9_RangeCardinality ==
    engine = "packaged" /\ status = "resolved" =>
        /\ \A p \in Range(pk.packages) :
             /\ pk.heap[p].groups.t = "Resolved"
             /\ Len(pk.heap[p].groups.cells) = CardinalityRule(pk.heap[p])
        /\ \A i \in AllInfos(pk) :
             /\ pk.heap[i].descriptors.t = "Resolved"
             /\ Len(pk.heap[i].descriptors.cells) = CardinalityRule(pk.heap[i])

\* add_file has added an Info to a package that holds both flags and has an
\* Info of 15 descriptors.
C9_Witness ==
    /\ engine = "packaged" /\ status = "resolved"
    /\ last.op = "add_file" /\ last.ok
    /\ last.info \notin Range(pk.infos)
    /\ \E p \in Range(pk.packages) :
         /\ pk.heap[p].is_localized /\ pk.heap[p].is_regional
         /\ last.info \in Range(pk.heap[p].infos.cells)
         /\ \E i \in Range(pk.heap[p].infos.cells) :
              Len(pk.heap[i].descriptors.cells) = 15

(***************************************************************************)
(* The number of links of a stream path                                    *)
(***************************************************************************)
\* The flag words the image holds for the paths with hash h.
FlagWords(image, h) ==
    {image.paths[k].flags : k \in {j \in DOMAIN image.paths : image.paths[j].path.hash = h}}

\* C10: every path of a parsed and resolved stream engine has 1 link iff
\* the flag word read for it is 0, 14 iff it is 1 and 5 iff it is 2, it is
\* never both localized and regional, and the flag word written for it is
\* the flag word read.
C10_StreamLinkCardinality ==
    engine = "stream" /\ status \in {"resolved", "written"} =>
        \A c \in Range(st.paths) :
            LET p == st.heap[c]
            IN  /\ p.links.t = "Resolved"
                /\ \A flag \in FlagWords(disk, p.full_path) :
                     /\ Len(p.links.cells) = 1 <=> flag = 0
                     /\ Len(p.links.cells) = 14 <=> flag = 1
                     /\ Len(p.links.cells) = 5 <=> flag = 2
                     /\ StreamPath_write_flags(p) = flag
                /\ FlagWords(disk, p.full_path) # {}
                /\ ~(p.is_localized /\ p.is_regional)
                /\ status = "written" =>
                     /\ FlagWords(out, p.full_path) # {}
                     /\ FlagWords(out, p.full_path) = FlagWords(disk, p.full_path)

\* A localized path and a regional path have been read, resolved and
\* written.
C10_Witness ==
    /\ engine = "stream" /\ status = "written"
    /\ \E c \in Range(st.paths) :
         st.heap[c].is_localized /\ Len(st.heap[c].links.cells) = 14
    /\ \E c \in Range(st.paths) :
         st.heap[c].is_regional /\ Len(st.heap[c].links.cells) = 5
    /\ {out.paths[j].flags : j \in DOMAIN out.paths} = {1, 2}

(***************************************************************************)
(* archive.rs: Archive::write_tables and the reader of a table section.    *)
(* The stream is a sequence of bytes; a byte of a header names the header  *)
(* and its place in it, a byte of compressed data names the section and    *)
(* its place in the data, and ZeroByte is a zero byte.  The length         *)
(* compress_data gives for a section is an input.                          *)
(***************************************************************************)
MaxCompressedLen == 9
StartPositions == {0, 8}
DecompressedLens == {24, 32}

\* magic, decompressed_size, compressed_size, compressed_section_size: four
\* u32.
ArchiveTablesHeader_size == 4 + 4 + 4 + 4

ArchiveTablesHeader(decompressed, compressed, section) ==
    [decompressed_size |-> decompressed,
     compressed_size |-> compressed,
     compressed_section_size |-> section]

NoHeader == ArchiveTablesHeader(0, 0, 0)
ZeroByte == [kind |-> "zero", header |-> NoHeader, section |-> "", at |-> 0]

ArchiveTablesHeader_write(h) ==
    [k \in 1..ArchiveTablesHeader_size |->
        [kind |-> "header", header |-> h, section |-> "", at |-> k - 1]]

compress_data(section, len) ==
    [k \in 1..len |->
        [kind |-> "data", header |-> NoHeader, section |-> section, at |-> k - 1]]

\* write_all at the position of the writer.
Stream_write_all(w, bytes) ==
    [pos |-> w.pos + Len(bytes),
     stream |-> SubSeq(w.stream, 1, w.pos) \o bytes
                \o SubSeq(w.stream, w.pos + Len(bytes) + 1, Len(w.stream))]

\* The section size of write_tables: the compressed length, and 8 minus
\* its remainder more when it is not a multiple of 8.
compressed_section_size(len) ==
    IF len % 8 # 0 THEN len + (8 - (len % 8)) ELSE len

\* The writer after the header and the data of one section.
Archive_write_section(w, section, decompressed, compressed) ==
    Stream_write_all(
        Stream_write_all(w,
            ArchiveTablesHeader_write(
                ArchiveTablesHeader(decompressed, compressed,
                                    compressed_section_size(compressed)))),
        compress_data(section, compressed))

\* [w |-> the writer, non_user_fs_start, user_fs_start |-> the pair
\* write_tables returns]
Archive_write_tables_user(w, w1, d2, c2) ==
    [w |-> Archive_write_section(w1, "user", d2, c2),
     non_user_fs_start |-> w.pos,
     user_fs_start |-> w1.pos]

Archive_write_tables(w, d1, c1, d2, c2) ==
    Archive_write_tables_user(w, Archive_write_section(w, "non_user", d1, c1), d2, c2)

\* Whether a header starts at position pos of the stream (the magic is
\* found), and the header.
ArchiveTablesHeader_read_ok(stream, pos) ==
    /\ pos + ArchiveTablesHeader_size <= Len(stream)
    /\ \A k \in 1..ArchiveTablesHeader_size :
         /\ stream[pos + k].kind = "header"
         /\ stream[pos + k].at = k - 1
         /\ stream[pos + k].header = stream[pos + 1].header

ArchiveTablesHeader_read(stream, pos) == stream[pos + 1].header

\* read_table: read_exact of compressed_size bytes, which the decompressor
\* accepts when they are the data of one section from its first byte, and
\* the seek to offset + compressed_section_size.
ArchiveTablesHeader_read_table_ok(h, stream, offset) ==
    /\ offset + h.compressed_size <= Len(stream)
    /\ \A k \in 1..h.compressed_size :
         /\ stream[offset + k].kind = "data"
         /\ stream[offset + k].at = k - 1
         /\ stream[offset + k].section = stream[offset + 1].section

ArchiveTablesHeader_read_table(h, offset) == offset + h.compressed_section_size

ArchiveInit ==
    /\ EngineIdle
    /\ hk = Idle /\ tm = Idle /\ tc = Idle
    /\ \E start \in StartPositions :
         ar = [phase |-> "open", pos |-> start,
               stream |-> [k \in 1..start |-> ZeroByte],
               non_user_fs_start |-> 0, user_fs_start |-> 0]

ArchiveWriteTables ==
    /\ ar.phase = "open"
    /\ \E d1 \in DecompressedLens, d2 \in DecompressedLens,
          c1 \in 1..MaxCompressedLen, c2 \in 1..MaxCompressedLen :
         LET r == Archive_write_tables([pos |-> ar.pos, stream |-> ar.stream],
                                       d1, c1, d2, c2)
         IN  ar' = [phase |-> "written", pos |-> r.w.pos, stream |-> r.w.stream,
                    non_user_fs_start |-> r.non_user_fs_start,
                    user_fs_start |-> r.user_fs_start]
    /\ UNCHANGED <<enginevars, hk, tm, tc>>

\* The non-user section is read from the start write_tables returned; the
\* reader is left where read_table seeks to.
ArchiveReadNonUser ==
    /\ ar.phase = "written"
    /\ IF ~ArchiveTablesHeader_read_ok(ar.stream, ar.non_user_fs_start)
       THEN ar' = [ar EXCEPT !.phase = "aborted"]
       ELSE LET h == ArchiveTablesHeader_read(ar.stream, ar.non_user_fs_start)
                offset == ar.non_user_fs_start + ArchiveTablesHeader_size
            IN  IF ~ArchiveTablesHeader_read_table_ok(h, ar.stream, offset)
                THEN ar' = [ar EXCEPT !.phase = "aborted"]
                ELSE ar' = [ar EXCEPT !.phase = "read",
                                      !.pos = ArchiveTablesHeader_read_table(h, offset)]
    /\ UNCHANGED <<enginevars, hk, tm, tc>>

ArchiveNext == ArchiveWriteTables \/ ArchiveReadNonUser

ArchiveSpec == ArchiveInit /\ [][ArchiveNext]_vars

\* The header written at the start of the non-user section, the first byte
\* after it, and the end of the section it declares.
NonUserHeader == ArchiveTablesHeader_read(ar.stream, ar.non_user_fs_start)
NonUserOffset == ar.non_user_fs_start + ArchiveTablesHeader_size
NonUserSectionEnd == NonUserOffset + NonUserHeader.compressed_section_size

\* The section size of the header is the compressed length rounded up to
\* the next multiple of 8.
SectionSizeRounded(h) ==
    /\ h.compressed_section_size % 8 = 0
    /\ h.compressed_section_size >= h.compressed_size
    /\ h.compressed_section_size < h.compressed_size + 8

\* C11: each header written by write_tables holds the compressed length
\* rounded up to the next multiple of 8 as its section size, the header of
\* the user section starts at the end of the non-user header plus that
\* section size, and the bytes between the compressed data and that start
\* are zero.
C11_SectionPadding ==
    ar.phase \in {"written", "read"} =>
        /\ SectionSizeRounded(NonUserHeader)
        /\ ArchiveTablesHeader_read_ok(ar.stream, ar.user_fs_start)
        /\ SectionSizeRounded(ArchiveTablesHeader_read(ar.stream, ar.user_fs_start))
        /\ ar.user_fs_start = NonUserSectionEnd
        /\ \A k \in (NonUserOffset + NonUserHeader.compressed_size + 1)..NonUserSectionEnd :
             k <= Len(ar.stream) /\ ar.stream[k] = ZeroByte

\* The section sizes alone.
C11_SectionSizes ==
    ar.phase \in {"written", "read"} =>
        /\ SectionSizeRounded(NonUserHeader)
        /\ ArchiveTablesHeader_read_ok(ar.stream, ar.user_fs_start)
        /\ SectionSizeRounded(ArchiveTablesHeader_read(ar.stream, ar.user_fs_start))

\* The user header starts where the compressed data of the non-user
\* section end.
C11_UserStartsAfterData ==
    ar.phase \in {"written", "read"} =>
        ar.user_fs_start = NonUserOffset + NonUserHeader.compressed_size

\* A non-user section whose compressed length is not a multiple of 8 has
\* been written and read.
C11_UnalignedWitness ==
    /\ ar.phase = "read"
    /\ NonUserHeader.compressed_size % 8 # 0
    /\ ar.pos # ar.user_fs_start

(***************************************************************************)
(* The file lookup of the packaged engine                                  *)
(***************************************************************************)
\* The bucket of a hash, and the order in which the keys are written: by
\* bucket, and by hash inside a bucket.
BucketOf(count, hash) == hash % count
KeyBefore(count, a, b) ==
    \/ BucketOf(count, a) < BucketOf(count, b)
    \/ BucketOf(count, a) = BucketOf(count, b) /\ a < b

\* The image holds the lookup m as to_memory is to write it.
LookupWritten(m, image) ==
    /\ image.path_bucket_count = m.count
    /\ image.path_lookup_count = Cardinality(DOMAIN m.map)
    /\ Len(image.path_buckets) = m.count
    /\ Len(image.path_keys) = Cardinality(DOMAIN m.map)
    /\ {image.path_keys[i].hash : i \in DOMAIN image.path_keys} = DOMAIN m.map
    /\ \A i, j \in DOMAIN image.path_keys :
         i < j => KeyBefore(m.count, image.path_keys[i].hash, image.path_keys[j].hash)
    /\ \A b \in DOMAIN image.path_buckets :
         /\ image.path_buckets[b].count =
                Cardinality({h \in DOMAIN m.map : BucketOf(m.count, h) = b - 1})
         /\ image.path_buckets[b].start =
                SumSeq([a \in 1..(b - 1) |-> image.path_buckets[a].count])
         /\ \A i \in DOMAIN image.path_keys :
                BucketOf(m.count, image.path_keys[i].hash) = b - 1
                <=> /\ i > image.path_buckets[b].start
                    /\ i <= image.path_buckets[b].start + image.path_buckets[b].count

\* C12: the bucket count of the file lookup is the one read from the input
\* and resolve, add_file and reorganize leave it so; the writer emits that
\* bucket count, the number of distinct path hashes as the total, for each
\* bucket the number of keys of the buckets before it and the number of its
\* own keys, and the keys bucket by bucket, in ascending hash order inside
\* a bucket.
C12_FileLookupBuckets ==
    engine = "packaged" /\ status # "disk" =>
        /\ pk.file_lookup.count = disk.path_bucket_count
        /\ status = "written" => LookupWritten(pk.file_lookup, out)

\* The lookup of an engine a file has been added to holds keys in both
\* buckets and has been written.
C12_Witness ==
    /\ engine = "packaged" /\ status = "written" /\ adds > 0
    /\ \A b \in DOMAIN out.path_buckets : out.path_buckets[b].count > 0
    /\ \E b \in DOMAIN out.path_buckets : out.path_buckets[b].start > 0
    /\ Cardinality(DOMAIN pk.file_lookup.map) > disk.path_lookup_count

(***************************************************************************)
(* engines/mod.rs: HashKey as the 64-bit word it is.  A word is the set of *)
(* the positions of its one bits, so that |, & and ! are union,            *)
(* intersection and complement, and a shift moves the positions and drops  *)
(* those that leave the word.                                              *)
(***************************************************************************)
WORD_BITS == 64
Bits == 0..(WORD_BITS - 1)
HASH_MASK == 0..39

Word_or(a, b) == a \cup b
Word_and(a, b) == a \cap b
Word_not(a) == Bits \ a
Word_shl(a, n) == {b + n : b \in {c \in a : c + n < WORD_BITS}}
Word_shr(a, n) == {b - n : b \in {c \in a : c >= n}}

\* A key whose setter keeps the bits of the old index.
HashKey_set_index_unmasked(key, index) == Word_or(key, Word_shl(index, 40))

HashKey_new_word(hash, index) == Word_or(hash, Word_shl(index, 40))
HashKey_hash(key) == Word_and(key, HASH_MASK)
HashKey_index(key) == Word_shr(Word_and(key, Word_not(HASH_MASK)), 40)
HashKey_set_hash(key, hash) == Word_or(Word_and(key, Word_not(HASH_MASK)), hash)
HashKey_set_index(key, index) == Word_or(Word_and(key, HASH_MASK), Word_shl(index, 40))

\* Hashes below 2^40 and indices below 2^24, among them zero, the least
\* and the greatest bit alone, and all bits.
Hashes == {{}, {0}, {39}, {3, 17}, 0..39}
Indices == {{}, {0}, {23}, {5, 11}, 0..23}

HashKeyInit ==
    /\ EngineIdle
    /\ ar = Idle /\ tm = Idle /\ tc = Idle
    /\ hk = [phase |-> "none", op |-> "none", key |-> {}, before |-> {},
             hash |-> {}, index |-> {}]

HashKeyNew ==
    /\ \E hash \in Hashes, index \in Indices :
         hk' = [phase |-> "key", op |-> "new", key |-> HashKey_new_word(hash, index),
                before |-> {}, hash |-> hash, index |-> index]
    /\ UNCHANGED <<enginevars, ar, tm, tc>>

HashKeySetHash ==
    /\ hk.phase = "key"
    /\ \E hash \in Hashes :
         hk' = [phase |-> "key", op |-> "set_hash",
                key |-> HashKey_set_hash(hk.key, hash),
                before |-> hk.key, hash |-> hash, index |-> {}]
    /\ UNCHANGED <<enginevars, ar, tm, tc>>

HashKeySetIndex ==
    /\ hk.phase = "key"
    /\ \E index \in Indices :
         hk' = [phase |-> "key", op |-> "set_index",
                key |-> HashKey_set_index(hk.key, index),
                before |-> hk.key, hash |-> {}, index |-> index]
    /\ UNCHANGED <<enginevars, ar, tm, tc>>

HashKeyNext == HashKeyNew \/ HashKeySetHash \/ HashKeySetIndex

HashKeySpec == HashKeyInit /\ [][HashKeyNext]_vars

\* C13: for a hash below 2^40 and an index below 2^24, HashKey::new(h, i)
\* has hash() = h and index() = i; set_hash(h') makes hash() = h' and
\* leaves index() as it was; set_index(i') makes index() = i' and leaves
\* hash() as it was.
C13_HashKeySymmetry ==
    /\ hk.op = "new" =>
         HashKey_hash(hk.key) = hk.hash /\ HashKey_index(hk.key) = hk.index
    /\ hk.op = "set_hash" =>
         /\ HashKey_hash(hk.key) = hk.hash
         /\ HashKey_index(hk.key) = HashKey_index(hk.before)
    /\ hk.op = "set_index" =>
         /\ HashKey_index(hk.key) = hk.index
         /\ HashKey_hash(hk.key) = HashKey_hash(hk.before)

\* The index of a key with a hash of all bits is set from one with bit 23
\* to one without it.
C13_Witness ==
    /\ hk.op = "set_index"
    /\ HashKey_hash(hk.before) = 0..39
    /\ 23 \in HashKey_index(hk.before)
    /\ hk.index = {5, 11}
    /\ hk.key = (0..39) \cup {45, 51}

(***************************************************************************)
(* engines/table.rs: TableMaker with its table and its map from GUID to    *)
(* index.  `pushed` keeps the cells whose push returned, in the order of   *)
(* the calls.                                                              *)
(***************************************************************************)
MaxCells == 4
Cells == 1..MaxCells

TableMaker_new == [table |-> <<>>, guid_to_index |-> <<>>]

\* HashMap::insert: the map afterwards; the old value is Some when the key
\* was present.
HashMap_insert(map, key, value) ==
    [k \in DOMAIN map \cup {key} |-> IF k = key THEN value ELSE map[k]]

\* A push that takes the index after the cell is in the table.
TableMaker_push_index_after(m, cell) ==
    IF cell \in DOMAIN m.guid_to_index
    THEN [ok |-> FALSE,
          m |-> [m EXCEPT !.guid_to_index = HashMap_insert(@, cell, Len(m.table) + 1)]]
    ELSE [ok |-> TRUE,
          m |-> [table |-> Append(m.table, cell),
                 guid_to_index |-> HashMap_insert(m.guid_to_index, cell,
                                                  Len(m.table) + 1)]]

\* [ok |-> push returned, m |-> the TableMaker afterwards].  The insert
\* into the map comes before the test, so a push that panics has already
\* replaced the index of the cell.
TableMaker_push(m, cell) ==
    IF cell \in DOMAIN m.guid_to_index
    THEN [ok |-> FALSE,
          m |-> [m EXCEPT !.guid_to_index = HashMap_insert(@, cell, Len(m.table))]]
    ELSE [ok |-> TRUE,
          m |-> [table |-> Append(m.table, cell),
                 guid_to_index |-> HashMap_insert(m.guid_to_index, cell,
                                                  Len(m.table))]]

TableMaker_has_cell_in_map(m, cell) == cell \in DOMAIN m.guid_to_index

\* get_index panics for a cell the map does not hold.
TableMaker_get_index_in_map_ok(m, cell) == cell \in DOMAIN m.guid_to_index
TableMaker_get_index_in_map(m, cell) == m.guid_to_index[cell]

TableMakerInit ==
    /\ EngineIdle
    /\ ar = Idle /\ hk = Idle /\ tc = Idle
    /\ tm = [phase |-> "open", m |-> TableMaker_new, pushed |-> <<>>,
             cell |-> 0, present |-> FALSE]

TableMakerPush ==
    /\ tm.phase = "open"
    /\ \E cell \in Cells :
         LET r == TableMaker_push(tm.m, cell)
         IN  tm' = [phase |-> IF r.ok THEN "open" ELSE "aborted",
                    m |-> r.m,
                    pushed |-> IF r.ok THEN Append(tm.pushed, cell) ELSE tm.pushed,
                    cell |-> cell,
                    present |-> cell \in Range(tm.pushed)]
    /\ UNCHANGED <<enginevars, ar, hk, tc>>

TableMakerNext == TableMakerPush

TableMakerSpec == TableMakerInit /\ [][TableMakerNext]_vars

\* C14: after any pushes that returned the table holds the pushed cells in
\* push order, get_index gives every pushed cell its position in the
\* table, has_cell is true for the pushed cells and no others, and the
\* indices are 0..len-1; a push of a cell that is present aborts and does
\* not extend the table.
C14_TableMakerIndices ==
    /\ tm.phase \in {"open", "aborted"} =>
         /\ tm.m.table = tm.pushed
         /\ tm.present <=> tm.phase = "aborted"
    /\ tm.phase = "open" =>
         /\ \A c \in Cells :
              TableMaker_has_cell_in_map(tm.m, c) <=> c \in Range(tm.pushed)
         /\ \A i \in DOMAIN tm.pushed :
              /\ TableMaker_get_index_in_map_ok(tm.m, tm.pushed[i])
              /\ TableMaker_get_index_in_map(tm.m, tm.pushed[i]) = i - 1
              /\ TableMaker_get_index(tm.m.table, tm.pushed[i]) = i - 1
         /\ {TableMaker_get_index_in_map(tm.m, c) : c \in Range(tm.pushed)}
                = 0..(Len(tm.pushed) - 1)
         /\ \A c \in Cells :
              /\ TableMaker_has_cell(tm.m.table, c)
                     <=> TableMaker_has_cell_in_map(tm.m, c)
              /\ TableMaker_push_ok(tm.m.table, c) <=> TableMaker_push(tm.m, c).ok

\* Three cells have been pushed, and the push of the first of them again
\* has aborted.
C14_Witness ==
    /\ tm.phase = "aborted"
    /\ Len(tm.pushed) = 3
    /\ tm.cell = tm.pushed[1]

(***************************************************************************)
(* engines/table.rs: TableCell::new and Clone under threads.  GUID is the  *)
(* one static AtomicU64 of TableCell::new; `heap` holds the RefCell every  *)
(* Rc points to, `cells` the cells in the order their construction ended.  *)
(* fetch_add wraps at 2^64, a count of constructions no run reaches: the   *)
(* constructions are capped at MaxNew.                                     *)
(***************************************************************************)
MaxThreads == 2
MaxNew == 3
MaxClones == 2
MaxSets == 1
Threads == 1..MaxThreads
CellData == {0, 1}

\* A fetch_add that stores nothing.
AtomicU64_fetch_add_no_store(value, n) == [old |-> value, new |-> value]

\* AtomicU64::fetch_add(n, SeqCst): one indivisible step giving the old
\* value and leaving the sum.
AtomicU64_fetch_add(value, n) == [old |-> value, new |-> value + n]

\* Rc::new(RefCell::new(data)): a fresh allocation holding the data.
Rc_new(heap, data) ==
    [rc |-> Len(heap) + 1, heap |-> Append(heap, data)]

\* A cell: its Rc, its guid, and (for the claims) the thread that made it
\* and the cell it was cloned from, 0 for a cell made by TableCell::new.
TableCell_clone(cell, from) == [cell EXCEPT !.from = from]

TableCell_get(heap, cell) == heap[cell.rc]
TableCell_get_mut(heap, cell, data) == [heap EXCEPT ![cell.rc] = data]

TableCellInit ==
    /\ EngineIdle
    /\ ar = Idle /\ hk = Idle /\ tm = Idle
    /\ tc = [phase |-> "run", GUID |-> 0, heap |-> <<>>, cells |-> <<>>,
             pc |-> [t \in Threads |-> "idle"],
             rc |-> [t \in Threads |-> 0],
             clones |-> 0, sets |-> 0]

\* The first field of TableCell::new: the Rc is allocated.
TableCellNewRc(t, data) ==
    /\ tc.phase = "run"
    /\ tc.pc[t] = "idle"
    /\ Len(tc.heap) < MaxNew
    /\ LET r == Rc_new(tc.heap, data)
       IN  tc' = [tc EXCEPT !.heap = r.heap, !.rc[t] = r.rc, !.pc[t] = "guid"]
    /\ UNCHANGED <<enginevars, ar, hk, tm>>

\* The second field of TableCell::new: the guid is fetched, the cell is
\* complete.
TableCellNewGuid(t) ==
    /\ tc.phase = "run"
    /\ tc.pc[t] = "guid"
    /\ LET r == AtomicU64_fetch_add(tc.GUID, 1)
       IN  tc' = [tc EXCEPT !.GUID = r.new,
                            !.cells = Append(@, [rc |-> tc.rc[t], guid |-> r.old,
                                                 thread |-> t, from |-> 0]),
                            !.rc[t] = 0, !.pc[t] = "idle"]
    /\ UNCHANGED <<enginevars, ar, hk, tm>>

\* A thread clones one of its cells (Rc is not Send: a cell stays with the
\* thread that made it).
TableCellClone(t, i) ==
    /\ tc.phase = "run"
    /\ tc.pc[t] = "idle"
    /\ tc.clones < MaxClones
    /\ i \in DOMAIN tc.cells
    /\ tc.cells[i].thread = t
    /\ tc' = [tc EXCEPT !.cells = Append(@, TableCell_clone(tc.cells[i], i)),
                        !.clones = @ + 1]
    /\ UNCHANGED <<enginevars, ar, hk, tm>>

\* A thread writes the data of one of its cells through get_mut.
TableCellGetMut(t, i, data) ==
    /\ tc.phase = "run"
    /\ tc.pc[t] = "idle"
    /\ tc.sets < MaxSets
    /\ i \in DOMAIN tc.cells
    /\ tc.cells[i].thread = t
    /\ TableCell_get(tc.heap, tc.cells[i]) # data
    /\ tc' = [tc EXCEPT !.heap = TableCell_get_mut(tc.heap, tc.cells[i], data),
                        !.sets = @ + 1]
    /\ UNCHANGED <<enginevars, ar, hk, tm>>

TableCellNext ==
    \/ \E t \in Threads, data \in CellData : TableCellNewRc(t, data)
    \/ \E t \in Threads : TableCellNewGuid(t)
    \/ \E t \in Threads, i \in 1..(MaxNew + MaxClones) : TableCellClone(t, i)
    \/ \E t \in Threads, i \in 1..(MaxNew + MaxClones), data \in CellData :
         TableCellGetMut(t, i, data)

TableCellSpec == TableCellInit /\ [][TableCellNext]_vars

\* C15: however the threads' TableCell::new calls interleave, two cells
\* made by separate calls have different GUIDs; of two cells one thread
\* made, the later has the greater GUID; a clone has the GUID of the cell
\* it was cloned from and the same data behind it.
C15_GuidsUnique ==
    tc.phase = "run" =>
        /\ \A i, j \in DOMAIN tc.cells :
             i < j /\ tc.cells[i].from = 0 /\ tc.cells[j].from = 0 =>
                 /\ tc.cells[i].guid # tc.cells[j].guid
                 /\ tc.cells[i].thread = tc.cells[j].thread =>
                        tc.cells[i].guid < tc.cells[j].guid
        /\ \A j \in DOMAIN tc.cells :
             tc.cells[j].from # 0 =>
                 /\ tc.cells[j].guid = tc.cells[tc.cells[j].from].guid
                 /\ tc.cells[j].rc = tc.cells[tc.cells[j].from].rc
                 /\ TableCell_get(tc.heap, tc.cells[j])
                        = TableCell_get(tc.heap, tc.cells[tc.cells[j].from])

\* Two threads were inside TableCell::new at once and the one that began
\* later took the earlier GUID; a cell has a clone, and its data has been
\* written since.
C15_Witness ==
    /\ tc.phase = "run"
    /\ \E i, j \in DOMAIN tc.cells :
         /\ tc.cells[i].from = 0 /\ tc.cells[j].from = 0
         /\ tc.cells[i].thread # tc.cells[j].thread
         /\ tc.cells[i].rc > tc.cells[j].rc
         /\ tc.cells[i].guid < tc.cells[j].guid
    /\ \E k \in DOMAIN tc.cells : tc.cells[k].from # 0
    /\ tc.sets > 0

(***************************************************************************)
(* The cells the records of a writer's tables are written by index of.     *)
(***************************************************************************)
\* A reference that holds a cell (its variant is one of `variants`) holds
\* a cell of the table.
HeldIn(r, variants, table) == r.t \in variants => TableMaker_has_cell(table, r.v)

\* The first cell of a resolved, non-empty list is a cell of the table.
FirstHeldIn(r, table) ==
    Cells_ok(r) /\ r.cells # <<>> => TableMaker_has_cell(table, r.cells[1])

LoadArgumentsClosed(w, a) ==
    IF a.tag \in {"Unowned", "SharedButOwned"} THEN HeldIn(a.r, {"Resolved"}, w.links)
    ELSE IF a.tag = "Owned" THEN HeldIn(a.r, {"Patch"}, w.patches)
    ELSE IF a.tag = "PackageSkip" THEN HeldIn(a.r, {"Resolved"}, w.infos)
    ELSE TRUE

PathsClosed(w) ==
    \A c \in Range(w.paths) :
        /\ HeldIn(w.heap[c].link, {"Resolved"}, w.links)
        /\ HeldIn(w.heap[c].versioned_file, {"VersionedFile"}, w.versioned_files)

InfosClosed(w) ==
    \A c \in Range(w.infos) :
        /\ HeldIn(w.heap[c].path, {"Resolved"}, w.paths)
        /\ HeldIn(w.heap[c].link, {"Resolved"}, w.links)
        /\ FirstHeldIn(w.heap[c].descriptors, w.descriptors)

LinksClosed(w) ==
    \A c \in Range(w.links) :
        /\ HeldIn(w.heap[c].owner, {"Package"}, w.packages)
        /\ HeldIn(w.heap[c].owner, {"Group"}, w.groups)
        /\ HeldIn(w.heap[c].info, {"Resolved"}, w.infos)

DescriptorsClosed(w) ==
    \A c \in Range(w.descriptors) :
        /\ HeldIn(w.heap[c].group, {"Resolved"}, w.groups)
        /\ HeldIn(w.heap[c].metadata, {"Metadata"}, w.metadatas)
        /\ LoadArgumentsClosed(w, w.heap[c].load_args)

PatchesClosed(w) ==
    /\ \A c \in Range(w.child_packages) :
         HeldIn(w.heap[c].package, {"Resolved"}, w.packages)
    /\ \A c \in Range(w.patches) : HeldIn(w.heap[c].group, {"Resolved"}, w.groups)
    /\ \A c \in Range(w.versioned_files) :
         /\ HeldIn(w.heap[c].info, {"Resolved"}, w.infos)
         /\ HeldIn(w.heap[c].link, {"Resolved"}, w.links)

ReferentiallyClosed(w) ==
    /\ PathsClosed(w) /\ InfosClosed(w) /\ LinksClosed(w)
    /\ DescriptorsClosed(w) /\ PatchesClosed(w)

\* C16: when PackagedWriter::from_engine completes, every cell a record of
\* an emitted table refers to at write time is in the TableMaker of its
\* type, so no get_index aborts while the tables are written.
C16_ReferentiallyClosed ==
    engine = "packaged" /\ status \in {"parsed", "resolved"} =>
        LET w == PackagedWriter_from_engine(pk)
        IN  w.ok => ReferentiallyClosed(w)

\* The link of every info and of every path of the writer is in its links.
LinksHeld(w) ==
    /\ \A c \in Range(w.paths) : HeldIn(w.heap[c].link, {"Resolved"}, w.links)
    /\ \A c \in Range(w.infos) : HeldIn(w.heap[c].link, {"Resolved"}, w.links)

\* Where from_engine completes, a cell that is referred to and is in no
\* table is the link of an info or of a path.
C16_ClosedButLinks ==
    engine = "packaged" /\ status \in {"parsed", "resolved"} =>
        LET w == PackagedWriter_from_engine(pk)
        IN  w.ok /\ LinksHeld(w) => ReferentiallyClosed(w)

(***************************************************************************)
(* The lists of the records of a writer's tables, which are written as a   *)
(* start and a count.                                                      *)
(***************************************************************************)
\* The cells of a list are in the table, one after the other from the
\* index of the first, in the order of the list.
ConsecutiveIn(cells, table) ==
    \A k \in DOMAIN cells :
        /\ TableMaker_has_cell(table, cells[k])
        /\ TableMaker_get_index(table, cells[k])
               = TableMaker_get_index(table, cells[1]) + (k - 1)

ListsConsecutive(w) ==
    /\ \A c \in Range(w.packages) :
         /\ ConsecutiveIn(w.heap[c].groups.cells, w.groups)
         /\ ConsecutiveIn(w.heap[c].infos.cells, w.infos)
         /\ ConsecutiveIn(w.heap[c].child_packages.cells, w.child_packages)
    /\ \A c \in Range(w.infos) :
         ConsecutiveIn(w.heap[c].descriptors.cells, w.descriptors)
    /\ \A c \in Range(w.groups) :
         /\ is_info_group(w.heap[c]) => ConsecutiveIn(w.heap[c].files.cells, w.infos)
         /\ is_metadata_group(w.heap[c]) =>
                ConsecutiveIn(w.heap[c].files.cells, w.metadatas)
    /\ \A c \in Range(w.patches) :
         /\ ConsecutiveIn(w.heap[c].versioned_files.cells, w.versioned_files)
         /\ ConsecutiveIn(w.heap[c].infos.cells, w.infos)

LoadArgumentsTag(a) ==
    IF a.tag = "Unowned" THEN 0
    ELSE IF a.tag = "Owned" THEN 1
    ELSE IF a.tag = "PackageSkip" THEN 3
    ELSE IF a.tag = "Unknown" THEN 5
    ELSE IF a.tag = "SharedButOwned" THEN 9
    ELSE 16

\* The position in the infos table of the first info of the first
\* info-group of the groups table; 0 when there is no info-group.
FirstInfoGroupInfo(e) ==
    LET gs == {i \in DOMAIN e.groups : is_info_group(e.heap[e.groups[i]])}
        g == CHOOSE i \in gs : \A j \in gs : i <= j
    IN  IF gs = {} THEN 0
        ELSE TableMaker_get_index(e.infos, e.heap[e.groups[g]].files.cells[1])

\* The descriptor is one of an info that a package lists.
PackageOwned(e, d) ==
    \E p \in Range(e.packages) :
        \E i \in Range(e.heap[p].infos.cells) : d \in Range(e.heap[i].descriptors.cells)

\* The table the cell of the load arguments is a record of.
LoadArgumentsTable(e, a) ==
    IF a.tag \in {"Unowned", "SharedButOwned"} THEN e.links
    ELSE IF a.tag = "Owned" THEN e.patches
    ELSE e.infos

LoadArgumentsPayload(e, d) ==
    LET a == e.heap[d].load_args
    IN  IF a.tag \in {"Unowned", "SharedButOwned"} THEN TableMaker_get_index(e.links, a.r.v)
        ELSE IF a.tag = "Owned"
        THEN IF a.r.t = "Patch" THEN TableMaker_get_index(e.patches, a.r.v) ELSE 0
        ELSE IF a.tag = "PackageSkip"
        THEN IF PackageOwned(e, d)
             THEN TableMaker_get_index(e.infos, a.r.v) - FirstInfoGroupInfo(e)
             ELSE TableMaker_get_index(e.infos, a.r.v)
        ELSE IF a.tag = "Unknown" THEN 0
        ELSE a.r.v

\* The same variant, and the cell at the same place of the table (cells
\* of two engines are compared by their places).
SameLoadArguments(e, a, e2, a2) ==
    /\ a2.tag = a.tag
    /\ a2.r.t = a.r.t
    /\ IF a.r.t \in {"Resolved", "Patch"}
       THEN TableMaker_get_index(LoadArgumentsTable(e2, a2), a2.r.v)
                = TableMaker_get_index(LoadArgumentsTable(e, a), a.r.v)
       ELSE a2.r.v = a.r.v

LoadArgumentsWords(e, image) ==
    \A i \in DOMAIN e.descriptors :
        /\ image.descriptors[i].load_args.tag
               = LoadArgumentsTag(e.heap[e.descriptors[i]].load_args)
        /\ image.descriptors[i].load_args.payload = LoadArgumentsPayload(e, e.descriptors[i])

LoadArgumentsReadBack(e, image) ==
    /\ PackagedEngine_read_ok(image)
    /\ LET r == PackagedEngine_resolve(PackagedEngine_read(image), FALSE)
       IN  /\ r.ok
           /\ \A i \in DOMAIN e.descriptors :
                SameLoadArguments(e, e.heap[e.descriptors[i]].load_args,
                                  r.e, r.e.heap[r.e.descriptors[i]].load_args)

\* C18: the load_args word of every written descriptor holds the tag of
\* its variant and the payload: the index of the link, of the patch (0 for
\* no patch) or of the info, the info's index less info_group_info_start
\* for PackageSkip on a descriptor of a package's info; and reading the
\* word back and resolving it gives the same variant and the same cell.
C18_LoadArgumentsWord ==
    engine = "packaged" /\ status = "written" =>
        /\ LoadArgumentsWords(pk, out)
        /\ LoadArgumentsReadBack(pk, out)

\* The words are as the claim says.
C18_Words == engine = "packaged" /\ status = "written" => LoadArgumentsWords(pk, out)

\* Where the image read back resolves, the load arguments are the same.
C18_ReadBackWhenResolved ==
    engine = "packaged" /\ status = "written" =>
        LET r == PackagedEngine_resolve(PackagedEngine_read(out), FALSE)
        IN  r.ok =>
                \A i \in DOMAIN pk.descriptors :
                    SameLoadArguments(pk, pk.heap[pk.descriptors[i]].load_args,
                                      r.e, r.e.heap[r.e.descriptors[i]].load_args)

\* The image of an engine add_file has not acted on reads back.
C18_ReadBackBeforeAddFile ==
    engine = "packaged" /\ status = "written" /\ adds = 0 => LoadArgumentsReadBack(pk, out)

(***************************************************************************)
(* info_group_info_start and version_group_info_start of a parsed engine.  *)
(***************************************************************************)
\* The position in the infos table of the first info of the first
\* version-group of the groups table; 0 when there is no version-group.
FirstVersionGroupInfo(e) ==
    LET gs == {i \in DOMAIN e.groups : is_version_group(e.heap[e.groups[i]])}
        g == CHOOSE i \in gs : \A j \in gs : i <= j
    IN  IF gs = {} THEN 0
        ELSE TableMaker_get_index(e.infos, e.heap[e.groups[g]].files.cells[1])

\* The engine as the walk over its groups has resolved them.
GroupsResolved(e) == [e EXCEPT !.heap = PackagedEngine_resolve_groups(e)]

\* The two starts after the walk has passed the first k groups.
StartsAfter(e, k) ==
    PackagedEngine_resolve_starts(e.heap, [e EXCEPT !.groups = SubSeq(e.groups, 1, k)],
                                  FALSE)

\* Both starts are the positions of the first info of the first group of
\* their kind, from the group that sets them to the end of the walk, and
\* the difference of the GUIDs is that position.
StartsRecorded(e) ==
    \A k \in DOMAIN e.groups :
        LET starts == StartsAfter(e, k)
            before == [e EXCEPT !.groups = SubSeq(e.groups, 1, k)]
            g == e.heap[e.groups[k]]
        IN  /\ starts.ok
            /\ starts.igis = FirstInfoGroupInfo(before)
            /\ starts.vgis = FirstVersionGroupInfo(before)
            /\ is_info_group(g) =>
                   g.files.cells[1] - e.infos[1]
                       = TableMaker_get_index(e.infos, g.files.cells[1])

\* C19: when a parsed engine is resolved, info_group_info_start is the
\* position in the infos table of the first info of the first info-group
\* of the groups table and version_group_info_start that of the first info
\* of the first version-group; each is set once and no later group
\* changes it; the difference of GUIDs it is computed as is the position.
C19_StartsRecorded ==
    engine = "packaged" /\ status = "parsed" /\ adds = 0
        /\ PackagedEngine_resolve(pk, FALSE).ok =>
            StartsRecorded(GroupsResolved(pk))

\* The same for the engines whose infos table begins with an info of a
\* package.
C19_AfterPackageInfos ==
    engine = "packaged" /\ status = "parsed" /\ adds = 0
        /\ PackagedEngine_resolve(pk, FALSE).ok
        /\ pk.packages # <<>> /\ pk.heap[pk.packages[1]].infos.e > 0 =>
            StartsRecorded(GroupsResolved(pk))

(***************************************************************************)
(* The kind of a group after Group::resolve, against the sub_package word  *)
(* the group was read from.                                                *)
(***************************************************************************)
\* Group k of a parsed engine as Group::resolve leaves it.
ResolvedGroup(e, k) ==
    Group_resolve(e.heap[e.groups[k]], e.packages, e.groups, e.infos, e.metadatas, k - 1)

\* The sub_package of the resolved group refers to the group itself.
RefersToItself(e, k) ==
    ResolvedGroup(e, k).sub_package.t = "Group"
        /\ ResolvedGroup(e, k).sub_package.v = e.groups[k]

\* C20 by the resolved sub_package: after Group::resolve a group is an
\* info-group if and only if its sub_package is None or the group itself,
\* a metadata-group otherwise, and a version-group if and only if it is an
\* info-group with no sub_package.
C20_InfoGroupIffNoneOrSelf ==
    engine = "packaged" /\ status = "parsed" /\ pk = PackagedEngine_read(disk)
        /\ PackagedEngine_resolve_groups_ok(pk) =>
            \A k \in DOMAIN pk.groups :
                /\ is_info_group(ResolvedGroup(pk, k))
                       <=> \/ ResolvedGroup(pk, k).sub_package.t = "None"
                           \/ RefersToItself(pk, k)
                /\ is_metadata_group(ResolvedGroup(pk, k))
                       <=> ~is_info_group(ResolvedGroup(pk, k))
                /\ is_version_group(ResolvedGroup(pk, k))
                       <=> /\ is_info_group(ResolvedGroup(pk, k))
                           /\ ResolvedGroup(pk, k).sub_package.t = "None"

\* C20 by the word read: after Group::resolve a group is an info-group if
\* and only if the sub_package word it was read from is 0 or the group's
\* own index, and a metadata-group otherwise; the sentinel 0x00FF_FFFF is
\* read as None and gives a metadata-group with no sub_package; a group is
\* a version-group if and only if it is an info-group with no sub_package.
C20_InfoGroupIffZeroOrSelf ==
    engine = "packaged" /\ status = "parsed" /\ pk = PackagedEngine_read(disk)
        /\ PackagedEngine_resolve_groups_ok(pk) =>
            \A k \in DOMAIN pk.groups :
                /\ is_info_group(ResolvedGroup(pk, k))
                       <=> disk.groups[k].sub_package \in {0, k - 1}
                /\ is_metadata_group(ResolvedGroup(pk, k))
                       <=> ~is_info_group(ResolvedGroup(pk, k))
                /\ disk.groups[k].sub_package = INVALID_INDEX =>
                       /\ ResolvedGroup(pk, k).sub_package.t = "None"
                       /\ is_metadata_group(ResolvedGroup(pk, k))
                /\ is_version_group(ResolvedGroup(pk, k))
                       <=> /\ is_info_group(ResolvedGroup(pk, k))
                           /\ ResolvedGroup(pk, k).sub_package.t = "None"

\* A parsed engine with a group read from the sentinel, one read from 0,
\* one read from its own index and one read from the index of a package or
\* of another group.
C20_Witness ==
    /\ engine = "packaged" /\ status = "parsed" /\ pk = PackagedEngine_read(disk)
    /\ PackagedEngine_resolve_groups_ok(pk)
    /\ \E k \in DOMAIN pk.groups : disk.groups[k].sub_package = INVALID_INDEX
    /\ \E k \in DOMAIN pk.groups : disk.groups[k].sub_package = 0
    /\ \E k \in DOMAIN pk.groups : k > 1 /\ disk.groups[k].sub_package = k - 1
    /\ \E k \in DOMAIN pk.groups :
         /\ disk.groups[k].sub_package \notin {0, k - 1, INVALID_INDEX}
         /\ ResolvedGroup(pk, k).sub_package.t \in {"Package", "Group"}

(***************************************************************************)
(* The owner of a link, and the sub_package of a group, against the index  *)
(* they are read from and the index they are written as.                   *)
(***************************************************************************)
\* The owner an index stands for when the groups are counted from `base`.
OwnerAt(e, x, base) ==
    IF x < Len(e.packages) THEN Variant("Package", e.packages[x + 1])
    ELSE Variant("Group", e.groups[x - base + 1])

\* Every link of the parsed engine resolves its owner, and every group its
\* sub_package unless it was read from 0 or the sentinel, to OwnerAt.
OwnersResolveTo(e, image, base) ==
    /\ \A k \in DOMAIN e.links :
         Link_resolve(e.heap[e.links[k]], e.packages, e.groups, e.infos).owner
             = OwnerAt(e, image.links[k].owner, base)
    /\ \A k \in DOMAIN e.groups :
         image.groups[k].sub_package \notin {0, INVALID_INDEX} =>
             ResolvedGroup(e, k).sub_package
                 = OwnerAt(e, image.groups[k].sub_package, base)

\* Every Group that owns a link of the written engine e, or is the
\* sub_package of one of its groups, is the group the written index stands
\* for when the image is parsed again: the one at the same place of the
\* groups table.  With `guarded`, only the indices that are not below
\* len(packages), and for a sub_package not 0, are looked at.
GroupOwnersReadBack(e, image, base, guarded) ==
    LET e2 == PackagedEngine_read(image)
    IN  /\ \A k \in DOMAIN e.links :
             /\ e.heap[e.links[k]].owner.t = "Group"
             /\ guarded => image.links[k].owner >= Len(e2.packages)
             => OwnerAt(e2, image.links[k].owner, base)
                    = Variant("Group",
                              e2.groups[IndexOf(e.groups, e.heap[e.links[k]].owner.v)])
        /\ \A k \in DOMAIN e.groups :
             /\ e.heap[e.groups[k]].sub_package.t = "Group"
             /\ guarded => /\ image.groups[k].sub_package >= Len(e2.packages)
                           /\ image.groups[k].sub_package # 0
             => OwnerAt(e2, image.groups[k].sub_package, base)
                    = Variant("Group",
                              e2.groups[IndexOf(e.groups,
                                                e.heap[e.groups[k]].sub_package.v)])

SearchPathReadBack(e, image, i, fields) ==
    LET p == e.heap[e.paths[i]]
        q == SearchPath_read(image.paths[i])
    IN  /\ "full_path" \in fields => q.full_path = p.full_path
        /\ "parent" \in fields =>
               q.parent = p.parent /\ image.paths[i].parent.hash = p.parent
        /\ "name" \in fields => q.name = p.name
        /\ "extension" \in fields => q.extension = p.extension
        /\ "folder" \in fields => (q.folder.t = "None") <=> (p.folder.t = "None")
        /\ "next" \in fields =>
               IF p.next.t = "None" THEN q.next = None
               ELSE q.next = Unresolved(IndexOf(e.paths, p.next.v) - 1)

SearchWritten ==
    engine = "search" /\ status = "written" /\ last.op = "write"

\* C22: a resolved SearchPath that is written and parsed again has the same
\* full_path, parent, name, extension, is-folder bit and next sibling; the
\* hash half of the second HashKey of the record is the parent hash.
C22_SearchPathRoundTrip ==
    SearchWritten =>
        \A i \in DOMAIN se.paths :
            SearchPathReadBack(se, out, i,
                {"full_path", "parent", "name", "extension", "folder", "next"})

\* Every field but the parent is the same after the round trip.
C22_ExceptParent ==
    SearchWritten =>
        \A i \in DOMAIN se.paths :
            SearchPathReadBack(se, out, i,
                {"full_path", "name", "extension", "folder", "next"})

\* The hash half of the second HashKey is the full path of the record.
C22_ParentIsFullPath ==
    SearchWritten =>
        \A i \in DOMAIN se.paths :
            out.paths[i].parent.hash = se.heap[se.paths[i]].full_path

(***************************************************************************)
(* changed_this_patch of a VersionedFile, written and parsed again         *)
(***************************************************************************)
PackagedWritten ==
    engine = "packaged" /\ status = "written" /\ last.op = "write"

\* File i of patch k of the written engine and the record written for it.
WrittenFile(e, k, i) == e.heap[e.heap[e.patches[k]].versioned_files.cells[i]]

\* C23: every VersionedFile is written with index 0 in its path HashKey if
\* it changed in its patch and with a non-zero index if it did not, and
\* the record is read back with the same changed_this_patch.
C23_ChangedThisPatch ==
    PackagedWritten =>
        \A k \in DOMAIN pk.patches :
            \A i \in DOMAIN pk.heap[pk.patches[k]].versioned_files.cells :
                /\ out.bodies[k].files[i].path.index = 0
                       <=> WrittenFile(pk, k, i).changed_this_patch
                /\ VersionedFile_read(out.bodies[k].files[i]).changed_this_patch
                       = WrittenFile(pk, k, i).changed_this_patch

\* Every VersionedFile is written with index 0 and read back as changed.
C23_WrittenAsChanged ==
    PackagedWritten =>
        \A k \in DOMAIN pk.patches :
            \A i \in DOMAIN pk.heap[pk.patches[k]].versioned_files.cells :
                /\ out.bodies[k].files[i].path.index = 0
                /\ VersionedFile_read(out.bodies[k].files[i]).changed_this_patch

\* The flag survives for the files that changed.
C23_ChangedSurvives ==
    PackagedWritten =>
        \A k \in DOMAIN pk.patches :
            \A i \in DOMAIN pk.heap[pk.patches[k]].versioned_files.cells :
                WrittenFile(pk, k, i).changed_this_patch =>
                    VersionedFile_read(out.bodies[k].files[i]).changed_this_patch

(***************************************************************************)
(* The table lengths the reader takes from the written PackagedFsHeader    *)
(***************************************************************************)
\* The header of the image that the last write produced.  The write has
\* replaced the engine by its reorganized tables, which the writer of a
\* second walk holds in the same order.
WrittenHeader(checked) ==
    PackagedFsHeader_read(
        PackagedFsHeader_write(
            PackagedWriter_from_engine(pk),
            PackagedWriter_to_memory_results(PackagedWriter_from_engine(pk), checked)))

WriterOfWritten ==
    /\ PackagedWriter_from_engine(pk).ok
    /\ PackagedEngine_from_writer(PackagedWriter_from_engine(pk)) = pk

\* C24: the group, info, descriptor and metadata counts that the reader
\* derives from the written header are the numbers of records written.
C24_HeaderCounts ==
    PackagedWritten =>
        /\ WriterOfWritten
        /\ \A checked \in BOOLEAN :
             PackagedWriter_to_memory_ok(PackagedWriter_from_engine(pk), checked) =>
                 /\ WrittenHeader(checked).group_count = Len(out.groups)
                 /\ WrittenHeader(checked).info_count = Len(out.infos)
                 /\ WrittenHeader(checked).descriptor_count = Len(out.descriptors)
                 /\ WrittenHeader(checked).metadata_count = Len(out.metadatas)

\* The group and info counts are those of the records written.
C24_GroupsAndInfos ==
    PackagedWritten =>
        /\ WriterOfWritten
        /\ \A checked \in BOOLEAN :
             PackagedWriter_to_memory_ok(PackagedWriter_from_engine(pk), checked) =>
                 /\ WrittenHeader(checked).group_count = Len(out.groups)
                 /\ WrittenHeader(checked).info_count = Len(out.infos)

\* The descriptor and metadata counts are off by the difference between
\* group_info_len and the counters the header has no field for.
C24_OffByGroupLens ==
    PackagedWritten =>
        \A checked \in BOOLEAN :
            LET w == PackagedWriter_from_engine(pk)
                r == PackagedWriter_to_memory_results(w, checked)
            IN  PackagedWriter_to_memory_ok(w, checked) =>
                    /\ WrittenHeader(checked).descriptor_count
                           = Len(out.descriptors) + r.group_info_len
                                 - r.group_descriptor_len
                    /\ WrittenHeader(checked).metadata_count
                           = Len(out.metadatas) + r.group_info_len - r.group_data_len

(***************************************************************************)
(* ToMemoryResults against the parts of the reorganized tables             *)
(***************************************************************************)
\* How many cells of the table have the given rank.
CountRank(table, Rank(_), k) ==
    Cardinality({i \in DOMAIN table : Rank(table[i]) = k})

\* The counters of r are the sizes of the parts of the tables of e whose
\* rank is in `parts`: 0 the package part, 1 the part of the info-groups
\* that are not version-groups, 2 the part of the version-groups.
ResultsCount(e, r, parts) ==
    /\ 0 \in parts =>
         /\ r.metadata_group_len = CountRank(e.groups, LAMBDA g : GroupRank(e, g), 0)
         /\ r.packaged_info_len = CountRank(e.infos, LAMBDA i : InfoRank(e, i), 0)
         /\ r.packaged_descriptor_len
                = CountRank(e.descriptors, LAMBDA d : DescriptorRank(e, d), 0)
         /\ r.packaged_data_len
                = CountRank(e.metadatas, LAMBDA m : MetadataRank(e, m), 0)
    /\ 1 \in parts =>
         /\ r.info_group_len = CountRank(e.groups, LAMBDA g : GroupRank(e, g), 1)
         /\ r.group_info_len = CountRank(e.infos, LAMBDA i : InfoRank(e, i), 1)
         /\ r.group_descriptor_len
                = CountRank(e.descriptors, LAMBDA d : DescriptorRank(e, d), 1)
         /\ r.group_data_len
                = CountRank(e.metadatas, LAMBDA m : MetadataRank(e, m), 1)
    /\ 2 \in parts =>
         /\ r.version_group_len = CountRank(e.groups, LAMBDA g : GroupRank(e, g), 2)
         /\ r.version_info_len = CountRank(e.infos, LAMBDA i : InfoRank(e, i), 2)
         /\ r.version_descriptor_len
                = CountRank(e.descriptors, LAMBDA d : DescriptorRank(e, d), 2)
         /\ r.version_data_len
                = CountRank(e.metadatas, LAMBDA m : MetadataRank(e, m), 2)

\* The written engine has a package info, an info-group that is not a
\* version-group, and a version-group.
AllPartsPresent(e) ==
    /\ \E i \in Range(e.infos) : InfoRank(e, i) = 0
    /\ \E g \in Range(e.groups) : GroupRank(e, g) = 1
    /\ \E g \in Range(e.groups) : GroupRank(e, g) = 2

\* C25: the counters to_memory returns are the numbers of groups, infos,
\* descriptors and metadatas of the package part, of the part of the
\* info-groups that are not version-groups and of the part of the
\* version-groups, for every layout: also one without package infos,
\* without info-groups that are not version-groups, or without
\* version-groups.
C25_ToMemoryResults ==
    PackagedWritten =>
        \A checked \in BOOLEAN :
            LET w == PackagedWriter_from_engine(pk)
            IN  PackagedWriter_to_memory_ok(w, checked) =>
                    ResultsCount(pk, PackagedWriter_to_memory_results(w, checked),
                                 {0, 1, 2})

\* The counters are right for the layouts that have all three parts.
C25_WhenAllPartsPresent ==
    PackagedWritten /\ AllPartsPresent(pk) =>
        \A checked \in BOOLEAN :
            LET w == PackagedWriter_from_engine(pk)
            IN  PackagedWriter_to_memory_ok(w, checked) =>
                    ResultsCount(pk, PackagedWriter_to_memory_results(w, checked),
                                 {0, 1, 2})

\* The lengths derived from the header are those of the tables written for
\* the layouts that have all three parts.
C24_WhenAllPartsPresent ==
    PackagedWritten /\ AllPartsPresent(pk) =>
        \A checked \in BOOLEAN :
            PackagedWriter_to_memory_ok(PackagedWriter_from_engine(pk), checked) =>
                /\ WrittenHeader(checked).descriptor_count = Len(out.descriptors)
                /\ WrittenHeader(checked).metadata_count = Len(out.metadatas)

(***************************************************************************)
(* The hash lookups after reorganize                                       *)
(***************************************************************************)
SearchLookupsInTables(e) ==
    /\ Range(e.folder_lookup) \subseteq Range(e.folders)
    /\ Range(e.path_lookup) \subseteq Range(e.paths)

StreamLookupsInTables(e) == Range(e.path_lookup) \subseteq Range(e.paths)

PackagedLookupsInTables(e) ==
    /\ Range(e.package_lookup) \subseteq Range(e.packages)
    /\ Range(e.file_lookup.map) \subseteq Range(e.paths)

AnyReorganized == last.op = "reorganize" /\ last.ok

\* C26: after a reorganize that completes, with or without an add_file
\* before it, every cell of a hash lookup is in the reorganized table of its
\* type, in each of the three engines.
C26_LookupsInTables ==
    AnyReorganized =>
        /\ engine = "search" => SearchLookupsInTables(se)
        /\ engine = "stream" => StreamLookupsInTables(st)
        /\ engine = "packaged" => PackagedLookupsInTables(pk)

\* The package lookup of the packaged engine is in the reorganized table.
C26_PackageLookup ==
    (AnyReorganized /\ engine = "packaged") =>
        Range(pk.package_lookup) \subseteq Range(pk.packages)

\* A search engine that add_file gave a new folder reorganizes, and the new
\* folder and the paths below it are in the lookups alone.
C26_NewFolderLeftOut ==
    /\ engine = "search"
    /\ AnyReorganized
    /\ adds > 0
    /\ \E h \in DOMAIN se.folder_lookup :
         /\ se.folder_lookup[h] \notin Range(se.folders)
         /\ \A c \in Range(se.heap[se.folder_lookup[h]].children.cells) :
              c \notin Range(se.paths)
    /\ ~SearchWriter_to_memory_ok(SearchWriter_from_engine(se))

(***************************************************************************)
(* The order of the tables of the stream engine                            *)
(***************************************************************************)
\* The elements of a sequence in the order of their first occurrences.
RECURSIVE FirstOccurrences(_)
FirstOccurrences(s) ==
    IF s = <<>> THEN <<>>
    ELSE LET front == FirstOccurrences(SubSeq(s, 1, Len(s) - 1))
         IN  IF s[Len(s)] \in Range(front) THEN front
             ELSE Append(front, s[Len(s)])

NoneTwice(s) == Cardinality(Range(s)) = Len(s)

\* The depth-first walk of a resolved stream engine.
WalkPaths(e) ==
    Flatten([i \in DOMAIN e.folders |-> e.heap[e.folders[i]].paths.cells])

WalkLinks(e) ==
    Flatten([j \in DOMAIN WalkPaths(e) |-> e.heap[WalkPaths(e)[j]].links.cells])

WalkMetadatas(e) ==
    FirstOccurrences([k \in DOMAIN WalkLinks(e) |->
                         e.heap[WalkLinks(e)[k]].metadata.v])

WalkedOnce(e) ==
    NoneTwice(e.folders) /\ NoneTwice(WalkPaths(e)) /\ NoneTwice(WalkLinks(e))

StreamTables(e) == <<e.folders, e.paths, e.links, e.metadatas>>

SearchTables(e) == <<e.folders, e.paths>>

PackagedTables(e) ==
    <<e.packages, e.child_packages, e.groups, e.paths, e.links, e.infos,
      e.descriptors, e.metadatas, e.patches, e.versioned_files>>

\* C28: a reorganize of a resolved engine that has just been reorganized
\* completes and leaves every table with the same cells in the same order,
\* and the reorganize inside a write of the tables that follows a
\* reorganize changes no table either; for the stream, search and packaged
\* engines.
C28_ReorganizeTwice ==
    [][(status = "resolved" /\ last.op = "reorganize" /\ last.ok
           /\ last'.op \in {"reorganize", "write"})
        => /\ last'.op = "reorganize" => last'.ok
           /\ last'.ok =>
                /\ StreamTables(st') = StreamTables(st)
                /\ SearchTables(se') = SearchTables(se)
                /\ PackagedTables(pk') = PackagedTables(pk)]_vars

\* A second reorganize has completed on a packaged engine with several
\* packages, whose tables are not in the order they were read in.
C28_Witness ==
    /\ engine = "packaged"
    /\ status = "resolved"
    /\ last.op = "reorganize"
    /\ last.ok
    /\ Len(pk.packages) > 1
    /\ PackagedEngine_reorganize(pk) = pk
    /\ PackagedTables(pk) # PackagedTables(PackagedEngine_read(disk))

(***************************************************************************)
(* Archive: the three engines of one archive file, read, resolved,        *)
(* reorganized and given files together.                                   *)
(***************************************************************************)
\* The archive files: a stream image of one folder and one plain path, a
\* search image of the root folder and one path, a packaged image of one
\* package without patches.
ArchiveImages ==
    {[stream |-> a, search |-> b, packaged |-> Image_of(cfg)] :
        a \in {d \in StreamImages :
                  /\ Len(d.folders) = 1 /\ Len(d.paths) = 1
                  /\ d.paths[1].flags = 0},
        b \in {d \in SearchImages : Len(d.folders) = 1 /\ Len(d.paths) = 1},
        cfg \in {c \in ImageConfigs :
                    c.shape = <<0>> /\ c.np = 0 /\ c.v = "plain"}}

ArchiveFilesInit ==
    /\ engine = "archive"
    /\ status = "disk"
    /\ disk \in ArchiveImages
    /\ out = disk
    /\ st = EmptyStream
    /\ se = EmptySearch
    /\ pk = EmptyPackaged
    /\ adds = 0
    /\ gen = 0
    /\ last = NoOp
    /\ PartsIdle

\* impl BinRead for Archive: the non-user tables, then the user tables.
ArchiveRead ==
    /\ engine = "archive"
    /\ status = "disk"
    /\ IF PackagedEngine_read_ok(disk.packaged) /\ StreamEngine_read_ok(disk.stream)
       THEN /\ pk' = PackagedEngine_read(disk.packaged)
            /\ st' = StreamEngine_read(disk.stream)
            /\ se' = SearchEngine_read(disk.search)
            /\ status' = "parsed"
            /\ last' = [op |-> "read", ok |-> TRUE]
       ELSE /\ UNCHANGED <<pk, st, se>>
            /\ status' = "aborted"
            /\ last' = [op |-> "read", ok |-> FALSE]
    /\ UNCHANGED <<engine, disk, out, adds, gen>>
    /\ UNCHANGED partvars

\* Archive::resolve: the packaged, the search and the stream engine.
Archive_resolve_ok(p, s, t, checked) ==
    /\ PackagedEngine_resolve(p, checked).ok
    /\ SearchEngine_resolve_ok(s)
    /\ SearchEngine_resolve_ends(s)
    /\ StreamEngine_resolve_ok(t)

\* The call is inside a walk of the search engine that does not end.
Archive_resolve_diverges(p, s, checked) ==
    /\ PackagedEngine_resolve(p, checked).ok
    /\ SearchEngine_resolve_ok(s)
    /\ ~SearchEngine_resolve_ends(s)

ArchiveResolve ==
    /\ engine = "archive"
    /\ status \in {"parsed", "resolved"}
    /\ \E checked \in BOOLEAN :
         IF Archive_resolve_ok(pk, se, st, checked)
         THEN /\ pk' = PackagedEngine_resolve(pk, checked).e
              /\ se' = SearchEngine_resolve(se)
              /\ st' = StreamEngine_resolve(st)
              /\ status' = "resolved"
              /\ last' = [op |-> "resolve", ok |-> TRUE]
         ELSE /\ UNCHANGED <<pk, se, st>>
              /\ status' = IF Archive_resolve_diverges(pk, se, checked)
                           THEN "diverged" ELSE "aborted"
              /\ last' = [op |-> "resolve", ok |-> FALSE]
    /\ UNCHANGED <<engine, disk, out, adds, gen>>
    /\ UNCHANGED partvars

\* Archive::add_file: the search engine, then the packaged engine.  A panic
\* of the first call ends the whole call.
Archive_add_file(s, p, file, package) ==
    LET r1 == SearchEngine_add_file(s, file)
        r2 == PackagedEngine_add_file(p, file, package)
    IN  IF ~r1.ok THEN [ok |-> FALSE, se |-> r1.e, pk |-> p]
        ELSE [ok |-> r2.ok, se |-> r1.e, pk |-> r2.e]

ArchiveAddFile ==
    /\ engine = "archive"
    /\ status \in {"parsed", "resolved"}
    /\ adds < MaxAdds
    /\ \E file \in FileStrings, package \in PackageHashes :
         LET r == Archive_add_file(se, pk, file, package)
         IN  /\ se' = r.se
             /\ pk' = r.pk
             /\ status' = IF r.ok THEN status ELSE "aborted"
             /\ last' = [op |-> "add_file", ok |-> r.ok, file |-> file,
                         package |-> package]
    /\ adds' = adds + 1
    /\ UNCHANGED <<engine, disk, out, st, gen>>
    /\ UNCHANGED partvars

\* Archive::reorganize: each engine is reorganized.
Archive_reorganize_ok(p, s, t) ==
    /\ PackagedWriter_from_engine(p).ok
    /\ SearchWriter_from_engine(s).ok
    /\ StreamWriter_from_engine(t).ok

ArchiveReorganize ==
    /\ engine = "archive"
    /\ status \in {"parsed", "resolved"}
    /\ IF Archive_reorganize_ok(pk, se, st)
       THEN /\ pk' = PackagedEngine_reorganize(pk)
            /\ se' = SearchEngine_reorganize(se)
            /\ st' = StreamEngine_reorganize(st)
            /\ status' = status
            /\ last' = [op |-> "reorganize", ok |-> TRUE]
       ELSE /\ UNCHANGED <<pk, se, st>>
            /\ status' = "aborted"
            /\ last' = [op |-> "reorganize", ok |-> FALSE]
    /\ UNCHANGED <<engine, disk, out, adds, gen>>
    /\ UNCHANGED partvars

ArchiveFilesNext ==
    \/ ArchiveRead
    \/ ArchiveResolve
    \/ ArchiveAddFile
    \/ ArchiveReorganize

ArchiveFilesSpec == ArchiveFilesInit /\ [][ArchiveFilesNext]_vars

\* The packaged engine rejects the file: it has the file already, or it has
\* no package of that hash.
PackagedRejects(e, file, package) ==
    has_file(e, file.full_path) \/ ~has_package(e, package)

\* C29: when Archive::add_file aborts because the packaged engine has the
\* file already or does not know the package, the search engine is as it
\* was before the call.
C29_AllOrNothing ==
    [][(engine = "archive" /\ last'.op = "add_file" /\ adds' = adds + 1
           /\ PackagedRejects(pk, last'.file, last'.package))
        => se' = se]_vars

\* Such a call aborts and leaves the packaged engine as it was.
C29_PackagedUnchanged ==
    [][(engine = "archive" /\ last'.op = "add_file" /\ adds' = adds + 1
           /\ PackagedRejects(pk, last'.file, last'.package))
        => ~last'.ok /\ pk' = pk]_vars

\* An aborted add_file of a file the packaged engine has, after which the
\* search engine has a path of that hash in its lookup and in the child list
\* of the root folder that the image does not have.
C29_SearchChanged ==
    /\ engine = "archive"
    /\ last.op = "add_file"
    /\ ~last.ok
    /\ has_file(pk, last.file.full_path)
    /\ has_package(pk, last.package)
    /\ last.file.full_path \in DOMAIN se.path_lookup
    /\ se.path_lookup[last.file.full_path] > Len(SearchEngine_read(disk.search).heap)
    /\ se.path_lookup[last.file.full_path]
         \in Range(se.heap[se.folder_lookup[ROOT_HASH]].children.cells)

(***************************************************************************)
(* The walk of the sibling chains in SearchEngine::resolve                 *)
(***************************************************************************)
\* C30: SearchEngine::resolve comes to an end on every paths table that has
\* been parsed: the walk from the first child of a folder along next()
\* reaches a path without a next sibling, and the child list it leaves has
\* no path twice.
C30_ResolveTerminates ==
    /\ status # "diverged"
    /\ (engine = "search" /\ last.op = "resolve" /\ last.ok) =>
          \A c \in Range(se.folders) : NoneTwice(se.heap[c].children.cells)

\* A resolve that has come to an end has left no path twice in a child list.
C30_EndedWalkOnce ==
    (engine = "search" /\ last.op = "resolve" /\ last.ok) =>
        \A c \in Range(se.folders) : NoneTwice(se.heap[c].children.cells)

\* The paths table of the image has a path whose next sibling is the path
\* itself, every index of the image is inside its table, and the walk of
\* resolve from the first child of the root folder does not end.
C30_CycleWalked ==
    /\ engine = "search"
    /\ status = "diverged"
    /\ last.op = "resolve"
    /\ SearchEngine_resolve_ok(se)
    /\ se.heap[se.paths[1]].next = Unresolved(0)
    /\ se.heap[se.folders[1]].children = LinkedUnresolved(0)
====
